---- MODULE Spec2Model ----
(***************************************************************************)
(* Model of the flight-data EDA library (A3/libs/utils.py, flights.py):    *)
(* the row-level derivation rules of Utils, the process-wide state of      *)
(* AnacVoos (dados, dados_solidos) and its aggregation entry points.       *)
(*                                                                         *)
(* Conventions                                                             *)
(*  - a Python call either returns or raises: an outcome is Ok(v) or       *)
(*    Raise(e);                                                            *)
(*  - a timestamp text "dd/mm/yyyy HH:MM:SS" is the tuple of its six       *)
(*    numeric fields <<dd, mm, yyyy, HH, MM, SS>>; a text that does not    *)
(*    have that shape is a tuple of another length or with a field out of  *)
(*    range, and strptime raises ValueError on it;                         *)
(*  - a duration text "HH:MM:SS" is the tuple <<HH, MM, SS>>; the empty     *)
(*    text, where a timestamp or a duration is expected, is <<>>;          *)
(*  - a DataFrame is the record [linhas |-> sequence of rows]; the class   *)
(*    attribute dados starts as None;                                      *)
(*  - the frame of Flights is modelled by its column headers, and a header *)
(*    by the sequence of its characters.                                   *)
(***************************************************************************)
EXTENDS Integers, Sequences, FiniteSets, TLC

VARIABLES dados, dados_solidos, dataframe_base, dataframe_description,
          chamada, retorno

vars == <<dados, dados_solidos, dataframe_base, dataframe_description,
          chamada, retorno>>

-----------------------------------------------------------------------------
(* Outcomes of a call *)

Ok(v) == [erro |-> "", valor |-> v]

Raise(e) == [erro |-> e]

None == [tipo |-> "None"]

DataFrame(linhas) == [tipo |-> "DataFrame", linhas |-> linhas]

\* a text given for an optional argument, or returned where None may be
Texto(t) == [texto |-> t]

-----------------------------------------------------------------------------
(* Text helpers: str.lower and str.upper over the texts the model uses *)

Situacoes ==
    {"Realizado", "Cancelado", "CANCELADO", "cancelado",
     "Realizado Com Atraso", "Realizado Sem Atraso", "Nao Informado"}

Flags == {"S", "N", "", "s"}

lower(s) ==
    CASE s = "Realizado" -> "realizado"
      [] s = "Cancelado" -> "cancelado"
      [] s = "CANCELADO" -> "cancelado"
      [] s = "cancelado" -> "cancelado"
      [] s = "Realizado Com Atraso" -> "realizado com atraso"
      [] s = "Realizado Sem Atraso" -> "realizado sem atraso"
      [] s = "Nao Informado" -> "nao informado"

upper(s) ==
    CASE s = "S" -> "S"
      [] s = "s" -> "S"
      [] s = "N" -> "N"
      [] s = "n" -> "N"
      [] s = "" -> ""

-----------------------------------------------------------------------------
(* datetime.strptime(texto, '%d/%m/%Y %H:%M:%S') and datetime arithmetic *)

bissexto(ano) == (ano % 4 = 0) /\ ((ano % 100 # 0) \/ (ano % 400 = 0))

dias_no_mes(mes, ano) ==
    IF mes = 2 THEN (IF bissexto(ano) THEN 29 ELSE 28)
    ELSE IF mes \in {4, 6, 9, 11} THEN 30 ELSE 31

formato_valido(texto) ==
    /\ Len(texto) = 6
    /\ texto[3] \in 1..9999
    /\ texto[2] \in 1..12
    /\ texto[1] \in 1..dias_no_mes(texto[2], texto[3])
    /\ texto[4] \in 0..23
    /\ texto[5] \in 0..59
    /\ texto[6] \in 0..59

RECURSIVE dias_antes_do_mes(_, _)
dias_antes_do_mes(mes, ano) ==
    IF mes = 1 THEN 0
    ELSE dias_antes_do_mes(mes - 1, ano) + dias_no_mes(mes - 1, ano)

dias_antes_do_ano(ano) ==
    (ano - 1) * 365 + ((ano - 1) \div 4) - ((ano - 1) \div 100)
        + ((ano - 1) \div 400)

\* a datetime: proleptic ordinal of the day and second within the day
strptime(texto) ==
    [dia |-> dias_antes_do_ano(texto[3]) + dias_antes_do_mes(texto[2], texto[3])
                + texto[1],
     seg |-> texto[4] * 3600 + texto[5] * 60 + texto[6],
     mes |-> texto[2]]

datetime_ge(a, b) == (a.dia > b.dia) \/ (a.dia = b.dia /\ a.seg >= b.seg)

datetime_eq(a, b) == a.dia = b.dia /\ a.seg = b.seg

\* (a - b).total_seconds()
total_seconds(a, b) == (a.dia - b.dia) * 86400 + (a.seg - b.seg)

-----------------------------------------------------------------------------
(* Utils: row-level derivation rules *)

validar_atraso_sem_lower(situacao, dt_prevista, dt_real) ==
    IF situacao = "cancelado" THEN Ok("")
    ELSE IF ~formato_valido(dt_prevista) \/ ~formato_valido(dt_real)
         THEN Raise("ValueError")
    ELSE IF datetime_ge(strptime(dt_prevista), strptime(dt_real))
         THEN Ok("N")
    ELSE Ok("S")

validar_atraso_estrito(situacao, dt_prevista, dt_real) ==
    IF lower(situacao) = "cancelado" THEN Ok("")
    ELSE IF ~formato_valido(dt_prevista) \/ ~formato_valido(dt_real)
         THEN Raise("ValueError")
    ELSE IF datetime_ge(strptime(dt_prevista), strptime(dt_real))
            /\ ~datetime_eq(strptime(dt_prevista), strptime(dt_real))
         THEN Ok("N")
    ELSE Ok("S")

\* variant: a timestamp that cannot be parsed is taken as "no delay"
validar_atraso_tolerante(situacao, dt_prevista, dt_real) ==
    IF lower(situacao) = "cancelado" THEN Ok("")
    ELSE IF ~formato_valido(dt_prevista) \/ ~formato_valido(dt_real) THEN Ok("N")
    ELSE IF datetime_ge(strptime(dt_prevista), strptime(dt_real))
         THEN Ok("N")
    ELSE Ok("S")

\* variant: the status of the record is not looked at
validar_atraso_sem_situacao(situacao, dt_prevista, dt_real) ==
    IF ~formato_valido(dt_prevista) THEN Raise("ValueError")
    ELSE IF ~formato_valido(dt_real) THEN Raise("ValueError")
    ELSE IF datetime_ge(strptime(dt_prevista), strptime(dt_real))
            \/ datetime_eq(strptime(dt_prevista), strptime(dt_real))
         THEN Ok("N")
    ELSE Ok("S")

validar_atraso(situacao, dt_prevista, dt_real) ==
    IF lower(situacao) = "cancelado" THEN Ok("")
    ELSE IF ~formato_valido(dt_prevista) THEN Raise("ValueError")
    ELSE IF ~formato_valido(dt_real) THEN Raise("ValueError")
    ELSE IF datetime_ge(strptime(dt_prevista), strptime(dt_real))
            \/ datetime_eq(strptime(dt_prevista), strptime(dt_real))
         THEN Ok("N")
    ELSE Ok("S")

atualizar_situacao_voo_e(situacao, partida_atrasou, chegada_atrasou) ==
    IF situacao = "Realizado" /\ (partida_atrasou = "S" /\ chegada_atrasou = "S")
    THEN "Realizado Com Atraso"
    ELSE IF situacao = "Realizado" /\ partida_atrasou = "N" /\ chegada_atrasou = "N"
    THEN "Realizado Sem Atraso"
    ELSE situacao

atualizar_situacao_voo_sem_guarda(situacao, partida_atrasou, chegada_atrasou) ==
    IF partida_atrasou = "S" \/ chegada_atrasou = "S"
    THEN "Realizado Com Atraso"
    ELSE IF situacao = "Realizado" /\ partida_atrasou = "N" /\ chegada_atrasou = "N"
    THEN "Realizado Sem Atraso"
    ELSE situacao

atualizar_situacao_voo(situacao, partida_atrasou, chegada_atrasou) ==
    IF situacao = "Realizado" /\ (partida_atrasou = "S" \/ chegada_atrasou = "S")
    THEN "Realizado Com Atraso"
    ELSE IF situacao = "Realizado" /\ partida_atrasou = "N" /\ chegada_atrasou = "N"
    THEN "Realizado Sem Atraso"
    ELSE situacao

\* f-string '{int(h):02}:{int(m):02}:{int(s):02}': the text "HH:MM:SS" is the
\* tuple of its three numeric fields
calcular_atraso(atrasou, prevista, real) ==
    IF upper(atrasou) # "S" THEN Ok(<<>>)
    ELSE IF ~formato_valido(prevista) THEN Raise("ValueError")
    ELSE IF ~formato_valido(real) THEN Raise("ValueError")
    ELSE LET segundos_total == total_seconds(strptime(real), strptime(prevista))
             horas == segundos_total \div 3600
             resto == segundos_total % 3600
         IN  Ok(<<horas, resto \div 60, resto % 60>>)

\* variant: the text is read as month/day, so the first field gives the month
atribuir_periodo_mes_primeiro(data) ==
    IF ~formato_valido(data) THEN Raise("ValueError")
    ELSE LET mes == data[1]
         IN  IF mes = 1 THEN Ok("janeiro")
             ELSE IF mes = 7 THEN Ok("julho")
             ELSE IF mes = 12 THEN Ok("dezembro")
             ELSE Ok("")

atribuir_periodo(data) ==
    IF ~formato_valido(data) THEN Raise("ValueError")
    ELSE LET mes == strptime(data).mes
         IN  IF mes = 1 THEN Ok("janeiro")
             ELSE IF mes = 7 THEN Ok("julho")
             ELSE IF mes = 12 THEN Ok("dezembro")
             ELSE Ok("")

\* Series.apply(atribuir_periodo): the rule on each element, in order; an
\* exception of any element is the exception of the whole
atribuir_periodo_ferias(data) ==
    IF \E i \in 1..Len(data) : atribuir_periodo(data[i]).erro # ""
    THEN Raise("ValueError")
    ELSE Ok([i \in 1..Len(data) |-> atribuir_periodo(data[i]).valor])

CodigosAtraso ==
    {"AEROPORTO COM RESTRICOES OPERACIONAIS",
     "ALTERNATIVA ABAIXO DOS LIMITES",
     "ANTECIPACAO DE HORARIO AUTORIZADA - ESPECIFICO VOOS INTERNACIONAIS",
     "ATRASO AEROPORTO DE ALTERNATIVA - CONDICOES METEOROLOGICAS",
     "ATRASO AEROPORTO DE ALTERNATIVA - ORDEM TECNICA",
     "ATRASOS NAO ESPECIFICOS - OUTROS",
     "CONEXAO AERONAVE/VOLTA - VOO DE IDA NAO PENALIZADO AEROPORTO INTERDITADO",
     "CONEXAO AERONAVE/VOLTA - VOO DE IDA NAO PENALIZADO CONDICOES METEOROLOGICAS",
     "CONEXAO DE AERONAVE",
     "DEFEITOS DA AERONAVE",
     "DEGELO E REMOCAO DE NEVE E/OU LAMA EM AERONAVE",
     "INCLUSAO DE ETAPA (AEROPORTO DE ALTERNATIVA) DEVIDO A UM VOO ESPECIAL RETORNO",
     "OPERACAO DE VOO COM MAIS DE 04 HORAS DE ATRASO PANE AERONAVE",
     "TROCA DE AERONAVE"}

motivo_atraso(motivo) ==
    CASE motivo = "AEROPORTO COM RESTRICOES OPERACIONAIS" ->
            "Restrições operacionais no aeroporto"
      [] motivo = "ALTERNATIVA ABAIXO DOS LIMITES" ->
            "Alternativa abaixo dos limites"
      [] motivo = "ANTECIPACAO DE HORARIO AUTORIZADA - ESPECIFICO VOOS INTERNACIONAIS" ->
            "Antecipação de horário"
      [] motivo = "ATRASO AEROPORTO DE ALTERNATIVA - CONDICOES METEOROLOGICAS" ->
            "Condições meteorológicas"
      [] motivo = "ATRASO AEROPORTO DE ALTERNATIVA - ORDEM TECNICA" ->
            "Ordem técnica"
      [] motivo = "ATRASOS NAO ESPECIFICOS - OUTROS" ->
            "Atraso não especificado"
      [] motivo = "CONEXAO AERONAVE/VOLTA - VOO DE IDA NAO PENALIZADO AEROPORTO INTERDITADO" ->
            "Interdição do aeroporto"
      [] motivo = "CONEXAO AERONAVE/VOLTA - VOO DE IDA NAO PENALIZADO CONDICOES METEOROLOGICAS" ->
            "Condições meteorológicas"
      [] motivo = "CONEXAO DE AERONAVE" -> "Conexão de aeronave"
      [] motivo = "DEFEITOS DA AERONAVE" -> "Defeitos da aeronave"
      [] motivo = "DEGELO E REMOCAO DE NEVE E/OU LAMA EM AERONAVE" ->
            "Degelo/Limpeza"
      [] motivo = "INCLUSAO DE ETAPA (AEROPORTO DE ALTERNATIVA) DEVIDO A UM VOO ESPECIAL RETORNO" ->
            "Inclusão de etapa"
      [] motivo = "OPERACAO DE VOO COM MAIS DE 04 HORAS DE ATRASO PANE AERONAVE" ->
            "Pane na aeronave"
      [] motivo = "TROCA DE AERONAVE" -> "Troca de aeronave"
      [] OTHER -> "Atraso não especificado"

CodigosCancelamento ==
    {"CANCELAMENTO - CONEXAO AERONAVE/VOLTA - VOO DE IDA CANCELADO - AEROPORTO INTERDITADO",
     "CANCELAMENTO - CONEXAO AERONAVE/VOLTA - VOO DE IDA CANCELADO - CONDICOES METEOROLOGICAS",
     "CANCELAMENTO POR MOTIVOS TECNICOS - OPERACIONAIS",
     "FALTA PAX COM PASSAGEM MARCADA - ( APENAS PARA AS LINHAS AEREAS DOMESTICAS REGIONAIS)",
     "PROGRAMADO - FERIADO NACIONAL"}

motivo_cancelamento(motivo) ==
    CASE motivo = "CANCELAMENTO - CONEXAO AERONAVE/VOLTA - VOO DE IDA CANCELADO - AEROPORTO INTERDITADO" ->
            "Interdição do aeroporto"
      [] motivo = "CANCELAMENTO - CONEXAO AERONAVE/VOLTA - VOO DE IDA CANCELADO - CONDICOES METEOROLOGICAS" ->
            "Condições meteorológicas"
      [] motivo = "CANCELAMENTO POR MOTIVOS TECNICOS - OPERACIONAIS" ->
            "Motivos técnicos-operacionais"
      [] motivo = "FALTA PAX COM PASSAGEM MARCADA - ( APENAS PARA AS LINHAS AEREAS DOMESTICAS REGIONAIS)" ->
            "Falta de passageiros com passagem marcada"
      [] motivo = "PROGRAMADO - FERIADO NACIONAL" -> "Feriado nacional"
      [] OTHER -> "Cancelamento não especificado"

\* variant: the lookup is made whatever the flags are
atualizar_justificativa_atraso_sempre(partida_atrasou, chegada_atrasou, codigo_justificativa) ==
    motivo_atraso(codigo_justificativa)

atualizar_justificativa_atraso(partida_atrasou, chegada_atrasou, codigo_justificativa) ==
    IF partida_atrasou = "S" \/ chegada_atrasou = "S"
    THEN motivo_atraso(codigo_justificativa)
    ELSE ""

atualizar_justificativa_cancelamento(situacao_voo, codigo_justificativa) ==
    IF situacao_voo = "Cancelado"
    THEN motivo_cancelamento(codigo_justificativa)
    ELSE ""

\* the list of one-entry dictionaries, each as the pair (raw name, normalized name)
normalizados ==
    <<
     <<"AEROLINEAS ARGENTINAS", "Aerolineas Argentinas">>,
     <<"AIR CANADA", "Air Canada">>,
     <<"AIR CHINA", "Air China">>,
     <<"AIR EUROPA S/A", "Air Europa">>,
     <<"AIR FRANCE", "Air France">>,
     <<"AIRES - LAN COLOMBIA", "Aires">>,
     <<"ALITALIA", "Alitalia">>,
     <<"AMERICAN AIRLINES INC", "American Airlines">>,
     <<"AUSTRAL LINEAS AÉREAS CIELOS DEL SUR S.A",
       "Austral Lineas Aereas">>,
     <<"AVIANCA", "Avianca">>,
     <<"AVIANCA BRASIL", "Avianca Brasil">>,
     <<"AZUL", "Azul">>,
     <<"BOLIVIANA DE AVIACION", "Boliviana de Aviacion">>,
     <<"BRITISH AIRWAYS PLC", "British Airways">>,
     <<"CONDOR FLUGDINST", "Condor Flugdinst">>,
     <<"COPA -COMPANIA PANAMENA DE AVIACION", "Copa">>,
     <<"DELTA AIRLINES", "Delta Airlines">>,
     <<"EDELWEISS", "Edelweiss">>,
     <<"EMIRATES", "Emirates">>,
     <<"EMPRESA DE TRANSPORTES AEREOS DE CABO VERDE S.A.",
       "Empresa de Transportes Aereos de Cabo Verde">>,
     <<"ETHIOPIAN", "Ethiopian">>,
     <<"ETIHAD", "Etihad">>,
     <<"FLYWAYS", "Flyways">>,
     <<"GOL", "Gol">>,
     <<"IBERIA", "Iberia">>,
     <<"INSELAIR", "InselAir">>,
     <<"KLM ROYAL DUTCH AIRLINES", "KLM Royal Dutch Airlines">>,
     <<"KOREAN AIRLINES", "Korean Airlines">>,
     <<"LAN ARGENTINA S/A", "LAN Argentina">>,
     <<"LAN CHILE", "LAN Chile">>,
     <<"LAN PERU S/A", "LAN Peru">>,
     <<"LUFTHANSA", "Lufthansa">>,
     <<"MAP LINHAS AEREAS", "MAP Linhas Aereas">>,
     <<"MERIDIANA", "Meridiana">>,
     <<"NAO INFORMADO", "Nao Informado">>,
     <<"PASSAREDO", "Passaredo">>,
     <<"QATAR AIRWAYS", "Qatar Airways">>,
     <<"ROYAL AIR MAROC", "Royal Air Maroc">>,
     <<"SINGAPORE AIRLINES", "Singapore Airlines">>,
     <<"SOUTH AFRICAN AIRWAYS", "South African Airways">>,
     <<"SURINAM AIRWAYS", "Surinam Airways">>,
     <<"SWISSAIR", "Swissair">>,
     <<"TAAG LINHAS AEREAS DE ANGOLA", "TAAG Linhas Aereas de Angola">>,
     <<"TAM", "TAM">>,
     <<"TAM TRANSP. AR. DEL. MERCOS", "TAM Transp. Ar. Del. Mercos">>,
     <<"TAP AIR PORTUGAL", "TAP Air Portugal">>,
     <<"TOTAL", "Total">>,
     <<"TRASAMERICA  AIRLINES-TACAPERU", "Trasamerica Airlines-TACA Peru">>,
     <<"TURKISH AIRLINES INC.", "Turkish Airlines">>,
     <<"UNITED AIRLINES", "United Airlines">>
    >>

\* variant: a name that is not in the list is given as "Nao Informado"
nome_companhia_aerea_normalizado_com_default(companhia_aerea) ==
    LET itens == {i \in 1..Len(normalizados) : normalizados[i][1] = companhia_aerea}
    IN  IF itens = {} THEN "Nao Informado"
        ELSE normalizados[CHOOSE i \in itens : \A k \in itens : i <= k][2]

\* variant: the item of "AVIANCA" gives a text that is itself a raw name
nome_companhia_aerea_normalizado_encadeado(companhia_aerea) ==
    LET itens == {i \in 1..Len(normalizados) : normalizados[i][1] = companhia_aerea}
    IN  IF companhia_aerea = "AVIANCA" THEN "AVIANCA BRASIL"
        ELSE IF itens = {} THEN companhia_aerea
        ELSE normalizados[CHOOSE i \in itens : \A k \in itens : i <= k][2]

\* the first item of the list that has the name as its key gives the result
nome_companhia_aerea_normalizado(companhia_aerea) ==
    LET itens == {i \in 1..Len(normalizados) : normalizados[i][1] = companhia_aerea}
    IN  IF itens = {} THEN companhia_aerea
        ELSE normalizados[CHOOSE i \in itens : \A k \in itens : i <= k][2]

\* variant: a text that is not a key of dias_semana is returned as it is
atribuir_dia_semana_com_default(dia_semana) ==
    CASE dia_semana = "Monday" -> Ok("segunda-feira")
      [] dia_semana = "Tuesday" -> Ok("terça-feira")
      [] dia_semana = "Wednesday" -> Ok("quarta-feira")
      [] dia_semana = "Thursday" -> Ok("quinta-feira")
      [] dia_semana = "Friday" -> Ok("sexta-feira")
      [] dia_semana = "Saturday" -> Ok("sábado")
      [] dia_semana = "Sunday" -> Ok("domingo")
      [] OTHER -> Ok(dia_semana)

\* dias_semana[dia_semana]: subscription raises KeyError for a missing key
atribuir_dia_semana(dia_semana) ==
    CASE dia_semana = "Monday" -> Ok("segunda-feira")
      [] dia_semana = "Tuesday" -> Ok("terça-feira")
      [] dia_semana = "Wednesday" -> Ok("quarta-feira")
      [] dia_semana = "Thursday" -> Ok("quinta-feira")
      [] dia_semana = "Friday" -> Ok("sexta-feira")
      [] dia_semana = "Saturday" -> Ok("sábado")
      [] dia_semana = "Sunday" -> Ok("domingo")
      [] OTHER -> Raise("KeyError")

\* variant: every line type other than "Internacional" is taken as national
criar_rota_sem_cidades(codigo_tipo_linha, pais_origem, pais_destino, estado_origem, estado_destino, cidade_origem, cidade_destino) ==
    IF codigo_tipo_linha = "Internacional"
    THEN pais_origem \o " - " \o pais_destino
    ELSE estado_origem \o " - " \o estado_destino

criar_rota(codigo_tipo_linha, pais_origem, pais_destino, estado_origem, estado_destino, cidade_origem, cidade_destino) ==
    IF codigo_tipo_linha = "Internacional"
    THEN pais_origem \o " - " \o pais_destino
    ELSE IF codigo_tipo_linha = "Nacional"
    THEN estado_origem \o " - " \o estado_destino
    ELSE cidade_origem \o " - " \o cidade_destino

\* Fixed-point arithmetic for the haversine formula.  A float is its value in
\* hundredths, truncated; an angle in radians is a whole number of pi/12
\* (15 degrees), so the coordinates are multiples of 30 degrees and the half
\* of a difference of two of them is a whole angle too.
R == 6371

\* np.radians(graus), in units of pi/12
radians(graus) == graus \div 15

\* the sines of 0, pi/12, ..., 6 pi/12, in hundredths
Senos == <<0, 26, 50, 71, 87, 97, 100>>

\* np.sin(angulo), for angles from -pi to pi
sin(angulo) ==
    LET modulo == IF angulo < 0 THEN -angulo ELSE angulo
        agudo == IF modulo > 6 THEN 12 - modulo ELSE modulo
    IN  IF angulo < 0 THEN -(Senos[agudo + 1]) ELSE Senos[agudo + 1]

\* np.cos(angulo), for angles from -pi/2 to pi/2
cos(angulo) == sin(angulo + 6)

\* the product of two floats
vezes(x, y) == (x * y) \div 100

\* np.sqrt(x)
sqrt(x) == CHOOSE r \in 0..150 : r * r <= x * 100 /\ x * 100 < (r + 1) * (r + 1)

\* np.arcsin(x) for x >= 0, in hundredths of pi/12: between two tabulated
\* sines the angle is interpolated linearly
arcsin(x) ==
    IF x >= 100 THEN 600
    ELSE LET angulo == CHOOSE k \in 0..5 : Senos[k + 1] <= x /\ x < Senos[k + 2]
         IN  100 * angulo + (100 * (x - Senos[angulo + 1])) \div (Senos[angulo + 2] - Senos[angulo + 1])

\* variant: the cosine of the origin latitude is used twice
calcular_distancia_km_cos_origem(lat_orig, long_orig, lat_dest, long_dest) ==
    LET dlat == radians(lat_dest) - radians(lat_orig)
        dlong == radians(long_dest) - radians(long_orig)
        a == vezes(sin(dlat \div 2), sin(dlat \div 2))
                + vezes(vezes(cos(radians(lat_orig)), cos(radians(lat_orig))),
                        vezes(sin(dlong \div 2), sin(dlong \div 2)))
        c == 2 * arcsin(sqrt(a))
    IN  (((R * c) \div 100) * 3142) \div 12000

\* the distance in km, truncated; c is in hundredths of pi/12
calcular_distancia_km(lat_orig, long_orig, lat_dest, long_dest) ==
    LET dlat == radians(lat_dest) - radians(lat_orig)
        dlong == radians(long_dest) - radians(long_orig)
        a == vezes(sin(dlat \div 2), sin(dlat \div 2))
                + vezes(vezes(cos(radians(lat_orig)), cos(radians(lat_dest))),
                        vezes(sin(dlong \div 2), sin(dlong \div 2)))
        c == 2 * arcsin(sqrt(a))
    IN  (((R * c) \div 100) * 3142) \div 12000

\* Python values handed to the converters: an int, a str given by its fields
\* between the ':' separators (the empty text has no field), or None.  A field
\* that int() accepts is Digitos(n), any other field is Letras(s).
Inteiro(n) == [tipo |-> "int", valor |-> n]

Digitos(n) == [digitos |-> n]

Letras(s) == [letras |-> s]

Str(campos) == [tipo |-> "str", campos |-> campos]

\* the text "HH:MM:SS" written by the f-strings, from its three numbers
StrDeNumeros(tempo) == Str([i \in 1..Len(tempo) |-> Digitos(tempo[i])])

\* int(campo) over the fields of tempo.split(':')
map_int(campos) ==
    IF \A i \in 1..Len(campos) : "digitos" \in DOMAIN campos[i]
    THEN Ok([i \in 1..Len(campos) |-> campos[i].digitos])
    ELSE Raise("ValueError")

converter_tempo_para_segundos_obj(tempo) ==
    IF tempo.tipo # "str" THEN Ok(0)
    ELSE IF Len(tempo.campos) # 3 THEN Ok(0)
    ELSE IF map_int(tempo.campos).erro # "" THEN map_int(tempo.campos)
    ELSE LET hms == map_int(tempo.campos).valor
         IN  Ok(hms[1] * 3600 + hms[2] * 60 + hms[3])

\* the conversion of a text whose fields are all numbers
converter_tempo_para_segundos(tempo) ==
    converter_tempo_para_segundos_obj(StrDeNumeros(tempo)).valor

\* int(segundos): an int is itself, a text of one numeric field is its number,
\* anything else raises (ValueError or TypeError)
int(objeto) ==
    IF objeto.tipo = "int" THEN Ok(objeto.valor)
    ELSE IF objeto.tipo # "str" THEN Raise("TypeError")
    ELSE IF Len(objeto.campos) # 1 THEN Raise("ValueError")
    ELSE IF "digitos" \in DOMAIN objeto.campos[1] THEN Ok(objeto.campos[1].digitos)
    ELSE Raise("ValueError")

\* variant: the hours wrap around at one day
converter_segundos_para_tempo_obj_do_dia(segundos) ==
    IF int(segundos).erro # "" THEN Ok(<<0, 0, 0>>)
    ELSE LET n == int(segundos).valor
         IN  Ok(<<(n \div 3600) % 24, (n % 3600) \div 60, n % 60>>)

converter_segundos_para_tempo_obj(segundos) ==
    IF int(segundos).erro # "" THEN Ok(<<0, 0, 0>>)
    ELSE LET n == int(segundos).valor
         IN  Ok(<<n \div 3600, (n % 3600) \div 60, n % 60>>)

converter_segundos_para_tempo(segundos) ==
    converter_segundos_para_tempo_obj(Inteiro(segundos)).valor

-----------------------------------------------------------------------------
(* The column catalogs *)

\* the members of the enumeration DescricaoColuna: (name, description)
DescricaoColuna ==
    <<
     <<"voos", "Número do voo">>,
     <<"companhia_aerea", "Nome da companhia aérea">>,
     <<"codigo_tipo_linha", "Código do tipo de linha (internacional)">>,
     <<"partida_prevista", "Horário previsto de partida">>,
     <<"partida_real", "Horário real de partida">>,
     <<"chegada_prevista", "Horário previsto de chegada">>,
     <<"chegada_real", "Horário real de chegada">>,
     <<"situacao_voo", "Situação do voo (realizado, cancelado, etc)">>,
     <<"codigo_justificativa", "Código de justificativa (caso o voo tenha sido cancelado)">>,
     <<"aeroporto_origem", "Código do aeroporto de origem">>,
     <<"cidade_origem", "Cidade de origem">>,
     <<"estado_origem", "Estado de origem">>,
     <<"pais_origem", "País de origem">>,
     <<"aeroporto_destino", "Código do aeroporto de destino">>,
     <<"cidade_destino", "Cidade de destino">>,
     <<"estado_destino", "Estado de destino">>,
     <<"pais_destino", "País de destino">>,
     <<"longdest", "Longitude do aeroporto de destino">>,
     <<"latdest", "Latitude do aeroporto de destino">>,
     <<"longorig", "Longitude do aeroporto de origem">>,
     <<"latorig", "Latitude do aeroporto de origem">>
    >>

\* the members of the enumeration DescricaoTipo: (name, name of the type)
DescricaoTipo ==
    <<
     <<"voos", "str">>,
     <<"companhia_aerea", "str">>,
     <<"codigo_tipo_linha", "str">>,
     <<"partida_prevista", "datetime">>,
     <<"partida_real", "datetime">>,
     <<"chegada_prevista", "datetime">>,
     <<"chegada_real", "datetime">>,
     <<"situacao_voo", "str">>,
     <<"codigo_justificativa", "str">>,
     <<"aeroporto_origem", "str">>,
     <<"cidade_origem", "str">>,
     <<"estado_origem", "str">>,
     <<"pais_origem", "str">>,
     <<"aeroporto_destino", "str">>,
     <<"cidade_destino", "str">>,
     <<"estado_destino", "str">>,
     <<"pais_destino", "str">>,
     <<"longdest", "int">>,
     <<"latdest", "int">>,
     <<"longorig", "int">>,
     <<"latorig", "int">>
    >>

\* the members of the enumeration Utils: (name, name of the type, description)
Utils ==
    <<
     <<"num_voo", "str", "Número do voo">>,
     <<"companhia_aerea", "str", "Nome da companhia aérea">>,
     <<"codigo_tipo_linha", "str", "Código do tipo de linha (internacional)">>,
     <<"rota", "str", "Origem x Destino">>,
     <<"periodo_ferias", "str", "Contém o mês condizente a um período de férias (Janeiro, Julho ou Dezembro)">>,
     <<"dia_semana", "str", "Contém o dia da semana para data de partida">>,
     <<"aeroporto_origem", "str", "Código do aeroporto de origem">>,
     <<"cidade_origem", "str", "Cidade de origem">>,
     <<"estado_origem", "str", "Estado de origem">>,
     <<"pais_origem", "str", "País de origem">>,
     <<"lat_orig", "float", "Latitude do aeroporto de origem">>,
     <<"long_orig", "float", "Longitude do aeroporto de origem">>,
     <<"partida_prevista", "datetime", "Horário previsto de partida">>,
     <<"partida_real", "datetime", "Horário real de partida">>,
     <<"partida_atrasou", "bool", "Houve atraso na partida do voo?">>,
     <<"tempo_atraso_partida", "str", "Tempo total do atraso da partida.">>,
     <<"aeroporto_destino", "str", "Código do aeroporto de destino">>,
     <<"cidade_destino", "str", "Cidade de destino">>,
     <<"estado_destino", "str", "Estado de destino">>,
     <<"pais_destino", "str", "País de destino">>,
     <<"lat_dest", "float", "Latitude do aeroporto de destino">>,
     <<"long_dest", "float", "Longitude do aeroporto de destino">>,
     <<"chegada_prevista", "datetime", "Horário previsto de chegada">>,
     <<"chegada_real", "datetime", "Horário real de chegada">>,
     <<"chegada_atrasou", "bool", "Houve atraso na chegada do voo?">>,
     <<"tempo_atraso_chegada", "str", "Tempo total do atraso da chegada.">>,
     <<"distancia_km", "float", "Total em quilômetros entre o local de origem e destino">>,
     <<"situacao_voo", "str", "Situação do voo (realizado, cancelado, etc)">>,
     <<"codigo_justificativa", "str", "Código de justificativa (caso o voo tenha sido cancelado)">>,
     <<"justificativa_atraso", "str", "Informação e correlata à justificativa no atraso do voo">>,
     <<"justificativa_cancelamento", "str", "Informação e correlata à justificativa do cancelamento do voo">>
    >>

\* the entry of a catalog that has the name, as a set: empty or one entry
membro(catalogo, nome_coluna) ==
    {catalogo[i] : i \in {k \in 1..Len(catalogo) : catalogo[k][1] = nome_coluna}}

DescricaoColuna_get(nome_coluna) ==
    IF membro(DescricaoColuna, nome_coluna) # {}
    THEN Ok(Texto((CHOOSE m \in membro(DescricaoColuna, nome_coluna) : TRUE)[2]))
    ELSE Ok(None)

DescricaoTipo_get(nome_coluna) ==
    IF membro(DescricaoTipo, nome_coluna) # {}
    THEN Ok(Texto((CHOOSE m \in membro(DescricaoTipo, nome_coluna) : TRUE)[2]))
    ELSE Ok(None)

\* names of the class dictionary of Utils that are methods, and names whose
\* value is a text
Utils_metodos == {"nomes_colunas", "tipo_coluna", "descricao_coluna"}

Utils_textos == {"__module__", "__doc__"}

\* Utils.__dict__[nome_coluna].__dict__['_value_'][campo]: each subscription
\* raises KeyError for a missing key, and a text has no __dict__
Utils_coluna(nome_coluna, campo) ==
    IF membro(Utils, nome_coluna) # {}
    THEN Ok(Texto((CHOOSE m \in membro(Utils, nome_coluna) : TRUE)[campo]))
    ELSE IF nome_coluna \in Utils_metodos THEN Raise("KeyError")
    ELSE IF nome_coluna \in Utils_textos THEN Raise("AttributeError")
    ELSE Raise("KeyError")

tipo_coluna(nome_coluna) == Utils_coluna(nome_coluna, 2)

descricao_coluna(nome_coluna) == Utils_coluna(nome_coluna, 3)

-----------------------------------------------------------------------------
(* The rules applied to inputs drawn from bounded sets.  A rule is a pure   *)
(* function: a behaviour applies one rule to one input.                    *)

Horarios ==
    {<<31, 12, 2015, 23, 59, 59>>, <<1, 1, 2016, 0, 0, 0>>,
     <<2, 1, 2016, 1, 0, 0>>, <<29, 2, 2016, 6, 30, 0>>,
     <<15, 7, 2016, 10, 30, 0>>, <<15, 7, 2016, 10, 35, 15>>}

HorariosMalFormados == {<<>>, <<30, 2, 2015, 6, 30, 0>>, <<1, 13, 2016, 0, 0, 0>>}

Codigos == CodigosAtraso \cup CodigosCancelamento \cup {"", "XX"}

InitRegras ==
    /\ dados = None
    /\ dados_solidos = FALSE
    /\ dataframe_base = None
    /\ dataframe_description = None
    /\ chamada = [op |-> ""]
    /\ retorno = Ok("")

Regra_validar_atraso ==
    \E situacao \in Situacoes, dt_prevista, dt_real \in Horarios \cup HorariosMalFormados :
        /\ chamada.op = ""
        /\ chamada' = [op |-> "validar_atraso", situacao |-> situacao,
                       dt_prevista |-> dt_prevista, dt_real |-> dt_real]
        /\ retorno' = validar_atraso(situacao, dt_prevista, dt_real)
        /\ UNCHANGED <<dados, dados_solidos, dataframe_base, dataframe_description>>

Regra_atualizar_situacao_voo ==
    \E situacao \in Situacoes, partida_atrasou, chegada_atrasou \in Flags :
        /\ chamada.op = ""
        /\ chamada' = [op |-> "atualizar_situacao_voo", situacao |-> situacao,
                       partida_atrasou |-> partida_atrasou,
                       chegada_atrasou |-> chegada_atrasou]
        /\ retorno' = Ok(atualizar_situacao_voo(situacao, partida_atrasou, chegada_atrasou))
        /\ UNCHANGED <<dados, dados_solidos, dataframe_base, dataframe_description>>

Regra_atualizar_justificativa_atraso ==
    \E partida_atrasou, chegada_atrasou \in Flags, codigo_justificativa \in Codigos :
        /\ chamada.op = ""
        /\ chamada' = [op |-> "atualizar_justificativa_atraso",
                       partida_atrasou |-> partida_atrasou,
                       chegada_atrasou |-> chegada_atrasou,
                       codigo_justificativa |-> codigo_justificativa]
        /\ retorno' = Ok(atualizar_justificativa_atraso(partida_atrasou,
                             chegada_atrasou, codigo_justificativa))
        /\ UNCHANGED <<dados, dados_solidos, dataframe_base, dataframe_description>>

Regra_atualizar_justificativa_cancelamento ==
    \E situacao_voo \in Situacoes, codigo_justificativa \in Codigos :
        /\ chamada.op = ""
        /\ chamada' = [op |-> "atualizar_justificativa_cancelamento",
                       situacao_voo |-> situacao_voo,
                       codigo_justificativa |-> codigo_justificativa]
        /\ retorno' = Ok(atualizar_justificativa_cancelamento(situacao_voo,
                             codigo_justificativa))
        /\ UNCHANGED <<dados, dados_solidos, dataframe_base, dataframe_description>>

TiposLinha == {"Internacional", "Nacional", "Regional", "internacional", "NACIONAL", ""}

Paises == {"Brasil", "Argentina"}

Estados == {"SP", "RJ"}

Cidades == {"Campinas", "Santos"}

Regra_criar_rota ==
    \E codigo_tipo_linha \in TiposLinha, pais_origem, pais_destino \in Paises,
       estado_origem, estado_destino \in Estados,
       cidade_origem, cidade_destino \in Cidades :
        /\ chamada.op = ""
        /\ chamada' = [op |-> "criar_rota", codigo_tipo_linha |-> codigo_tipo_linha,
                       pais_origem |-> pais_origem, pais_destino |-> pais_destino,
                       estado_origem |-> estado_origem, estado_destino |-> estado_destino,
                       cidade_origem |-> cidade_origem, cidade_destino |-> cidade_destino]
        /\ retorno' = Ok(criar_rota(codigo_tipo_linha, pais_origem, pais_destino,
                                    estado_origem, estado_destino,
                                    cidade_origem, cidade_destino))
        /\ UNCHANGED <<dados, dados_solidos, dataframe_base, dataframe_description>>

\* well-formed timestamps of every month, on two days, years and times of day
Datas ==
    {<<dia, mes, ano, hms[1], hms[2], hms[3]>> :
        dia \in {7, 28}, mes \in 1..12, ano \in {2015, 2016},
        hms \in {<<0, 0, 0>>, <<23, 59, 59>>}}

Regra_atribuir_periodo_ferias ==
    \E data \in {<<d>> : d \in Datas \cup HorariosMalFormados}
                  \cup {<<d1, d2>> : d1 \in Datas, d2 \in Horarios \cup HorariosMalFormados} :
        /\ chamada.op = ""
        /\ chamada' = [op |-> "atribuir_periodo_ferias", data |-> data]
        /\ retorno' = atribuir_periodo_ferias(data)
        /\ UNCHANGED <<dados, dados_solidos, dataframe_base, dataframe_description>>

Regra_calcular_atraso ==
    \E atrasou \in Flags, prevista, real \in Horarios \cup HorariosMalFormados :
        /\ chamada.op = ""
        /\ chamada' = [op |-> "calcular_atraso", atrasou |-> atrasou,
                       prevista |-> prevista, real |-> real]
        /\ retorno' = calcular_atraso(atrasou, prevista, real)
        /\ UNCHANGED <<dados, dados_solidos, dataframe_base, dataframe_description>>

\* airline names: every raw name of the list, every normalized name, and
\* names that are in neither
Companhias ==
    {normalizados[i][1] : i \in 1..Len(normalizados)}
        \cup {normalizados[i][2] : i \in 1..Len(normalizados)}
        \cup {"", "tam", "Tam", "VARIG", "AZUL LINHAS AEREAS"}

Regra_motivo_atraso ==
    \E motivo \in Codigos :
        /\ chamada.op = ""
        /\ chamada' = [op |-> "motivo_atraso", motivo |-> motivo]
        /\ retorno' = Ok(motivo_atraso(motivo))
        /\ UNCHANGED <<dados, dados_solidos, dataframe_base, dataframe_description>>

Regra_motivo_cancelamento ==
    \E motivo \in Codigos :
        /\ chamada.op = ""
        /\ chamada' = [op |-> "motivo_cancelamento", motivo |-> motivo]
        /\ retorno' = Ok(motivo_cancelamento(motivo))
        /\ UNCHANGED <<dados, dados_solidos, dataframe_base, dataframe_description>>

Regra_nome_companhia_aerea_normalizado ==
    \E companhia_aerea \in Companhias :
        /\ chamada.op = ""
        /\ chamada' = [op |-> "nome_companhia_aerea_normalizado",
                       companhia_aerea |-> companhia_aerea]
        /\ retorno' = Ok(nome_companhia_aerea_normalizado(companhia_aerea))
        /\ UNCHANGED <<dados, dados_solidos, dataframe_base, dataframe_description>>

DiasSemana ==
    {"Monday", "Tuesday", "Wednesday", "Thursday", "Friday", "Saturday", "Sunday",
     "monday", "MONDAY", "Mon", "", "segunda-feira", "Segunda"}

Regra_atribuir_dia_semana ==
    \E dia_semana \in DiasSemana :
        /\ chamada.op = ""
        /\ chamada' = [op |-> "atribuir_dia_semana", dia_semana |-> dia_semana]
        /\ retorno' = atribuir_dia_semana(dia_semana)
        /\ UNCHANGED <<dados, dados_solidos, dataframe_base, dataframe_description>>

\* column names: every member of the three catalogs, names in none of them,
\* and names of the class dictionary of Utils that are not members
NomesColunas ==
    {DescricaoColuna[i][1] : i \in 1..Len(DescricaoColuna)}
        \cup {DescricaoTipo[i][1] : i \in 1..Len(DescricaoTipo)}
        \cup {Utils[i][1] : i \in 1..Len(Utils)}
        \cup {"", "xx", "LongDest", "name", "nomes_colunas", "__module__"}

Regra_DescricaoColuna_get ==
    \E nome_coluna \in NomesColunas :
        /\ chamada.op = ""
        /\ chamada' = [op |-> "DescricaoColuna.get", nome_coluna |-> nome_coluna]
        /\ retorno' = DescricaoColuna_get(nome_coluna)
        /\ UNCHANGED <<dados, dados_solidos, dataframe_base, dataframe_description>>

Regra_DescricaoTipo_get ==
    \E nome_coluna \in NomesColunas :
        /\ chamada.op = ""
        /\ chamada' = [op |-> "DescricaoTipo.get", nome_coluna |-> nome_coluna]
        /\ retorno' = DescricaoTipo_get(nome_coluna)
        /\ UNCHANGED <<dados, dados_solidos, dataframe_base, dataframe_description>>

Regra_tipo_coluna ==
    \E nome_coluna \in NomesColunas :
        /\ chamada.op = ""
        /\ chamada' = [op |-> "Utils.tipo_coluna", nome_coluna |-> nome_coluna]
        /\ retorno' = tipo_coluna(nome_coluna)
        /\ UNCHANGED <<dados, dados_solidos, dataframe_base, dataframe_description>>

Regra_descricao_coluna ==
    \E nome_coluna \in NomesColunas :
        /\ chamada.op = ""
        /\ chamada' = [op |-> "Utils.descricao_coluna", nome_coluna |-> nome_coluna]
        /\ retorno' = descricao_coluna(nome_coluna)
        /\ UNCHANGED <<dados, dados_solidos, dataframe_base, dataframe_description>>

\* valid coordinates in degrees, poles and antimeridian included
Latitudes == {-90, -60, -30, 0, 30, 60, 90}

Longitudes == {-180, -120, -60, 0, 30, 90, 180}

Regra_calcular_distancia_km ==
    \E lat_orig, lat_dest \in Latitudes, long_orig, long_dest \in Longitudes :
        /\ chamada.op = ""
        /\ chamada' = [op |-> "calcular_distancia_km", lat_orig |-> lat_orig, long_orig |-> long_orig, lat_dest |-> lat_dest, long_dest |-> long_dest]
        /\ retorno' = Ok(calcular_distancia_km(lat_orig, long_orig, lat_dest, long_dest))
        /\ UNCHANGED <<dados, dados_solidos, dataframe_base, dataframe_description>>

\* the values handed to converter_tempo_para_segundos: texts "HH:MM:SS", texts
\* with another number of ':' separators, texts with a field that is not a
\* number, and values that are not texts
Tempos ==
    {None, Inteiro(9045), Str(<<>>), Str(<<Letras("abc")>>),
     StrDeNumeros(<<12, 30>>), StrDeNumeros(<<1, 2, 3, 4>>),
     StrDeNumeros(<<2, 30, 45>>), StrDeNumeros(<<0, 0, 0>>),
     StrDeNumeros(<<0, 45, 15>>), StrDeNumeros(<<-1, 54, 45>>),
     Str(<<Digitos(12), Letras("xx"), Digitos(0)>>),
     Str(<<Digitos(1), Digitos(2), Letras("3.5")>>),
     Str(<<Digitos(12), Letras(""), Digitos(0)>>)}

Regra_converter_tempo_para_segundos ==
    \E tempo \in Tempos :
        /\ chamada.op = ""
        /\ chamada' = [op |-> "converter_tempo_para_segundos", tempo |-> tempo]
        /\ retorno' = converter_tempo_para_segundos_obj(tempo)
        /\ UNCHANGED <<dados, dados_solidos, dataframe_base, dataframe_description>>

MaxSegundos == 4000

\* the values handed to converter_segundos_para_tempo: the counts up to
\* MaxSegundos, counts around one day and beyond, a negative count, and values
\* that are not counts
Segundos ==
    {Inteiro(n) : n \in 0..MaxSegundos}
        \cup {Inteiro(9045), Inteiro(86399), Inteiro(86400), Inteiro(90061), Inteiro(360000), Inteiro(-5)}
        \cup {None, StrDeNumeros(<<90>>), Str(<<Letras("xx")>>),
              StrDeNumeros(<<2, 30, 45>>)}

Regra_converter_segundos_para_tempo ==
    \E segundos \in Segundos :
        /\ chamada.op = ""
        /\ chamada' = [op |-> "converter_segundos_para_tempo", segundos |-> segundos]
        /\ retorno' = converter_segundos_para_tempo_obj(segundos)
        /\ UNCHANGED <<dados, dados_solidos, dataframe_base, dataframe_description>>

-----------------------------------------------------------------------------
(* pandas: the DataFrame operations the aggregation entry points use.  A    *)
(* row is a function from column names to values; the order of the columns *)
(* of a frame is not modelled.                                             *)

\* Python's order on str (by code point), over the texts of the key columns
TextosOrdenados ==
    <<"",
      "Alternativa abaixo dos limites",
      "Antecipação de horário",
      "Atraso não especificado",
      "Brasil - Argentina",
      "Campinas - Santos",
      "Cancelamento não especificado",
      "Condições meteorológicas",
      "Conexão de aeronave",
      "Defeitos da aeronave",
      "Degelo/Limpeza",
      "Falta de passageiros com passagem marcada",
      "Feriado nacional",
      "Inclusão de etapa",
      "Interdição do aeroporto",
      "Internacional",
      "Motivos técnicos-operacionais",
      "Nacional",
      "Ordem técnica",
      "Pane na aeronave",
      "Regional",
      "Restrições operacionais no aeroporto",
      "SP - RJ",
      "Troca de aeronave",
      "dezembro",
      "janeiro",
      "julho">>

ordem_texto(t) == CHOOSE i \in 1..Len(TextosOrdenados) : TextosOrdenados[i] = t

chave(linha, cols) == [i \in 1..Len(cols) |-> linha[cols[i]]]

chave_lt(k1, k2) ==
    \E i \in 1..Len(k1) :
        /\ ordem_texto(k1[i]) < ordem_texto(k2[i])
        /\ \A j \in 1..(i - 1) : k1[j] = k2[j]

RECURSIVE ordenar_chaves(_)
ordenar_chaves(S) ==
    IF S = {} THEN <<>>
    ELSE LET m == CHOOSE x \in S : \A y \in S : x = y \/ chave_lt(x, y)
         IN  <<m>> \o ordenar_chaves(S \ {m})

RECURSIVE soma_coluna(_, _)
soma_coluna(linhas, col) ==
    IF linhas = <<>> THEN 0
    ELSE Head(linhas)[col] + soma_coluna(Tail(linhas), col)

\* one named aggregation (source column, function) applied to a group
agregar(grupo, ag) ==
    CASE ag.func = "size" -> Len(grupo)
      [] ag.func = "soma_igual" ->
            Len(SelectSeq(grupo, LAMBDA l : l[ag.col] = ag.valor))
      [] ag.func = "mean" ->
            [num |-> soma_coluna(grupo, ag.col), den |-> Len(grupo)]

\* variant: one group per value of the first key column only
groupby_agg_primeira_chave(linhas, cols, aggs) ==
    IF Len(cols) = 0 THEN Raise("ValueError")
    ELSE LET ks == ordenar_chaves({chave(linhas[i], <<cols[1]>>) : i \in 1..Len(linhas)})
             nomes == {cols[i] : i \in 1..Len(cols)}
         IN  Ok(DataFrame(
               [n \in 1..Len(ks) |->
                  LET grupo == SelectSeq(linhas, LAMBDA l : chave(l, <<cols[1]>>) = ks[n])
                  IN  [c \in nomes \cup DOMAIN aggs |->
                         IF c \in DOMAIN aggs THEN agregar(grupo, aggs[c])
                         ELSE grupo[1][c]]]))

\* dataframe.groupby(cols).agg(**aggs).reset_index(): one row per distinct key,
\* in the order of the keys; groupby raises ValueError without grouping keys
groupby_agg(linhas, cols, aggs) ==
    IF Len(cols) = 0 THEN Raise("ValueError")
    ELSE LET ks == ordenar_chaves({chave(linhas[i], cols) : i \in 1..Len(linhas)})
             nomes == {cols[i] : i \in 1..Len(cols)}
         IN  Ok(DataFrame(
               [n \in 1..Len(ks) |->
                  LET grupo == SelectSeq(linhas, LAMBDA l : chave(l, cols) = ks[n])
                  IN  [c \in nomes \cup DOMAIN aggs |->
                         IF c \in DOMAIN aggs THEN agregar(grupo, aggs[c])
                         ELSE ks[n][CHOOSE i \in 1..Len(cols) : cols[i] = c]]]))

\* Series.round(n) of a / b: to the nearest multiple of 10^-n, a tie going to
\* the even one; the value m / 10^n is the record [num |-> m, casas |-> n]
round_div(a, b, n) ==
    IF b = 0 THEN [nan |-> TRUE]
    ELSE LET q == (a * 10^n) \div b
             r == (a * 10^n) % b
         IN  [num |-> IF 2 * r < b THEN q
                      ELSE IF 2 * r > b THEN q + 1
                      ELSE IF q % 2 = 0 THEN q ELSE q + 1,
              casas |-> n]

\* variant: the ratio is cut after n decimals instead of rounded
percentual_truncado(linhas, alvo, fonte, round) ==
    [i \in 1..Len(linhas) |->
        [c \in DOMAIN linhas[i] \cup {alvo} |->
            IF c = alvo
            THEN [num |-> (linhas[i][fonte] * 10^round) \div linhas[i]["voos"],
                  casas |-> round]
            ELSE linhas[i][c]]]

\* df[alvo] = (df[fonte] / df['voos']).round(round)
percentual(linhas, alvo, fonte, round) ==
    [i \in 1..Len(linhas) |->
        [c \in DOMAIN linhas[i] \cup {alvo} |->
            IF c = alvo
            THEN round_div(linhas[i][fonte], linhas[i]["voos"], round)
            ELSE linhas[i][c]]]

RECURSIVE percentuais_em(_, _, _)
percentuais_em(linhas, cols_percentuais, round) ==
    IF cols_percentuais = <<>> THEN linhas
    ELSE percentuais_em(
            percentual(linhas, Head(cols_percentuais)[1],
                       Head(cols_percentuais)[2], round),
            Tail(cols_percentuais), round)

remover(linhas, i) ==
    [j \in 1..(Len(linhas) - 1) |-> IF j < i THEN linhas[j] ELSE linhas[j + 1]]

\* variant: the first n rows, without ordering them
nlargest_head(linhas, n, col) ==
    IF n <= 0 THEN <<>>
    ELSE SubSeq(linhas, 1, IF n < Len(linhas) THEN n ELSE Len(linhas))

\* variant: of the rows with the same value the last one comes first
RECURSIVE nlargest_ultimo(_, _, _)
nlargest_ultimo(linhas, n, col) ==
    IF n <= 0 \/ linhas = <<>> THEN <<>>
    ELSE LET i == CHOOSE x \in 1..Len(linhas) :
                    /\ \A y \in 1..Len(linhas) : linhas[y][col] <= linhas[x][col]
                    /\ \A y \in (x + 1)..Len(linhas) : linhas[y][col] < linhas[x][col]
         IN  <<linhas[i]>> \o nlargest_ultimo(remover(linhas, i), n - 1, col)

\* DataFrame.nlargest(n, col): the n rows with the largest values, largest
\* first, rows with equal values in their order in the frame (keep='first')
RECURSIVE nlargest(_, _, _)
nlargest(linhas, n, col) ==
    IF n <= 0 \/ linhas = <<>> THEN <<>>
    ELSE LET i == CHOOSE x \in 1..Len(linhas) :
                    /\ \A y \in 1..Len(linhas) : linhas[y][col] <= linhas[x][col]
                    /\ \A y \in 1..(x - 1) : linhas[y][col] < linhas[x][col]
         IN  <<linhas[i]>> \o nlargest(remover(linhas, i), n - 1, col)

\* DataFrame.sort_values(by=[col1, col2], ascending=False): col1 a text column,
\* col2 a count; rows equal on both keep their order
RECURSIVE sort_values_desc(_, _, _)
sort_values_desc(linhas, col1, col2) ==
    IF linhas = <<>> THEN <<>>
    ELSE LET antes(a, b) ==
                \/ ordem_texto(a[col1]) > ordem_texto(b[col1])
                \/ a[col1] = b[col1] /\ a[col2] > b[col2]
             i == CHOOSE x \in 1..Len(linhas) :
                    /\ \A y \in 1..Len(linhas) : ~antes(linhas[y], linhas[x])
                    /\ \A y \in 1..(x - 1) : antes(linhas[x], linhas[y])
         IN  <<linhas[i]>> \o sort_values_desc(remover(linhas, i), col1, col2)

-----------------------------------------------------------------------------
(* AnacVoos: the aggregation entry points, as outcomes of a call made in    *)
(* the current state                                                       *)

aggregation_columns ==
    [realizados_s_atraso |->
        [col |-> "situacao_voo", func |-> "soma_igual", valor |-> "Realizado Sem Atraso"],
     realizados_c_atraso |->
        [col |-> "situacao_voo", func |-> "soma_igual", valor |-> "Realizado Com Atraso"],
     cancelados |->
        [col |-> "situacao_voo", func |-> "soma_igual", valor |-> "Cancelado"]]

\* variant: the cancelled flights are counted from the delayed status
aggregation_columns_trocadas ==
    [realizados_s_atraso |->
        [col |-> "situacao_voo", func |-> "soma_igual", valor |-> "Realizado Sem Atraso"],
     realizados_c_atraso |->
        [col |-> "situacao_voo", func |-> "soma_igual", valor |-> "Realizado Com Atraso"],
     cancelados |->
        [col |-> "situacao_voo", func |-> "soma_igual", valor |-> "Realizado Com Atraso"]]

get_voos_ferias_regras_trocadas(dataframe, cols_groupby, aggregation_columns_added) ==
    groupby_agg(dataframe, cols_groupby,
                aggregation_columns_added @@ aggregation_columns_trocadas)

\* aggregation_columns.update(added): an added name replaces the rule's
get_voos_ferias_regras(dataframe, cols_groupby, aggregation_columns_added) ==
    groupby_agg(dataframe, cols_groupby,
                aggregation_columns_added @@ aggregation_columns)

erro_dados == Raise("ValueError")

get_voos_ferias ==
    IF ~dados_solidos THEN erro_dados
    ELSE Ok(DataFrame(SelectSeq(dados.linhas, LAMBDA l : l.periodo_ferias # "")))

\* Series.unique(): the distinct values in order of first appearance
RECURSIVE unique(_)
unique(valores) ==
    IF valores = <<>> THEN <<>>
    ELSE LET antes == unique(SubSeq(valores, 1, Len(valores) - 1))
             v == valores[Len(valores)]
         IN  IF \E i \in 1..Len(antes) : antes[i] = v THEN antes
             ELSE Append(antes, v)

\* variant: the lookup raises the data-state error like the aggregations
periodo_ferias_com_erro ==
    IF dados_solidos
    THEN LET periodos == SelectSeq(dados.linhas, LAMBDA l : l.periodo_ferias # "")
         IN  Ok(unique([i \in 1..Len(periodos) |-> periodos[i].periodo_ferias]))
    ELSE erro_dados

periodo_ferias ==
    IF dados_solidos
    THEN LET periodos == SelectSeq(dados.linhas, LAMBDA l : l.periodo_ferias # "")
         IN  Ok(unique([i \in 1..Len(periodos) |-> periodos[i].periodo_ferias]))
    ELSE Ok(<<>>)

tipo_linha ==
    IF dados_solidos
    THEN LET periodos == SelectSeq(dados.linhas, LAMBDA l : l.codigo_tipo_linha # "")
         IN  Ok(unique([i \in 1..Len(periodos) |-> periodos[i].codigo_tipo_linha]))
    ELSE Ok(<<>>)

\* variant: the selection of the delayed flights is assigned back to cls.dados
dados_apos_get_atrasos_voos_ferias_reatribuido(filtro_periodo_ferias, filtro_codigo_tipo_linha) ==
    IF ~dados_solidos THEN dados
    ELSE DataFrame(SelectSeq(dados.linhas,
            LAMBDA l : /\ l.periodo_ferias # ""
                       /\ \/ l.partida_atrasou = "S"
                          \/ l.chegada_atrasou = "S"
                          \/ l.situacao_voo = "Realizado Com Atraso"
                       /\ filtro_periodo_ferias # None
                              => l.periodo_ferias = filtro_periodo_ferias.texto
                       /\ filtro_codigo_tipo_linha # None
                              => l.codigo_tipo_linha = filtro_codigo_tipo_linha.texto))

\* cls.dados after get_atrasos_voos_ferias. The method assigns into one frame
\* of records only, atrasos (the delays in seconds); atrasos is the frame
\* built by the boolean selection of get_voos_ferias and by query, which
\* holds rows of its own, so the loaded records keep their values.
dados_apos_get_atrasos_voos_ferias(filtro_periodo_ferias, filtro_codigo_tipo_linha) ==
    dados

\* variant: the filter on the vacation period is not applied
get_voos_ferias_geral_sem_filtro(filtrar_periodo_ferias, percentuais, round, cols_groupby) ==
    IF ~dados_solidos THEN erro_dados
    ELSE LET df == get_voos_ferias_regras(dados.linhas, cols_groupby,
                       [voos |-> [col |-> "distancia_km", func |-> "size"]])
         IN  IF df.erro # "" THEN df
             ELSE Ok(DataFrame(percentuais_em(df.valor.linhas, percentuais, round)))

get_voos_ferias_geral(filtrar_periodo_ferias, percentuais, round, cols_groupby) ==
    IF ~dados_solidos THEN erro_dados
    ELSE LET add_aggregation == [voos |-> [col |-> "distancia_km", func |-> "size"]]
             df == IF filtrar_periodo_ferias
                   THEN get_voos_ferias_regras(get_voos_ferias.valor.linhas,
                                               cols_groupby, add_aggregation)
                   ELSE get_voos_ferias_regras(dados.linhas, cols_groupby,
                                               add_aggregation)
         IN  IF df.erro # "" THEN df
             ELSE Ok(DataFrame(percentuais_em(df.valor.linhas, percentuais, round)))

\* the optional arguments linha and periodo are None or a text
get_voos_ferias_linha_periodo(cols_groupyby, cols_percentuais, round, ranking, linha, periodo) ==
    IF ~dados_solidos THEN erro_dados
    ELSE LET por_linha == IF linha # None
                          THEN SelectSeq(dados.linhas,
                                   LAMBDA l : l.codigo_tipo_linha = linha.texto)
                          ELSE dados.linhas
             dataframe == IF periodo # None
                          THEN SelectSeq(por_linha,
                                   LAMBDA l : l.periodo_ferias = periodo.texto)
                          ELSE por_linha
             add_aggregation ==
                 [distancia_media_km |-> [col |-> "distancia_km", func |-> "mean"],
                  voos |-> [col |-> "distancia_km", func |-> "size"]]
             dataframe_agg == get_voos_ferias_regras(dataframe, cols_groupyby,
                                                     add_aggregation)
         IN  IF dataframe_agg.erro # "" THEN dataframe_agg
             ELSE Ok(DataFrame(nlargest(
                        percentuais_em(dataframe_agg.valor.linhas, cols_percentuais, round),
                        ranking, "voos")))

\* int(mean) and the conversion of a mean of seconds to "HH:MM:SS"
media_para_tempo(media) ==
    IF media.den = 0 THEN <<0, 0, 0>>
    ELSE converter_segundos_para_tempo(media.num \div media.den)

get_atrasos_voos_ferias(cols_groupby, converter, filtro_periodo_ferias, filtro_codigo_tipo_linha) ==
    IF ~dados_solidos THEN erro_dados
    ELSE LET atrasados == SelectSeq(get_voos_ferias.valor.linhas,
                              LAMBDA l : \/ l.partida_atrasou = "S"
                                         \/ l.chegada_atrasou = "S"
                                         \/ l.situacao_voo = "Realizado Com Atraso")
             por_periodo == IF filtro_periodo_ferias # None
                            THEN SelectSeq(atrasados,
                                   LAMBDA l : l.periodo_ferias = filtro_periodo_ferias.texto)
                            ELSE atrasados
             por_linha == IF filtro_codigo_tipo_linha # None
                          THEN SelectSeq(por_periodo,
                                   LAMBDA l : l.codigo_tipo_linha = filtro_codigo_tipo_linha.texto)
                          ELSE por_periodo
             em_segundos ==
                 [i \in 1..Len(por_linha) |->
                    [por_linha[i] EXCEPT
                        !.tempo_atraso_partida = converter_tempo_para_segundos(@),
                        !.tempo_atraso_chegada = converter_tempo_para_segundos(@)]]
             agg == IF Len(cols_groupby) = 0 THEN Raise("ValueError")
                    ELSE groupby_agg(em_segundos, cols_groupby,
                           [total_atrasos |-> [col |-> cols_groupby[1], func |-> "size"],
                            media_atrasos_partida |->
                                [col |-> "tempo_atraso_partida", func |-> "mean"],
                            media_atrasos_chegada |->
                                [col |-> "tempo_atraso_chegada", func |-> "mean"]])
         IN  IF agg.erro # "" THEN agg
             ELSE IF \A i \in 1..Len(cols_groupby) : cols_groupby[i] # "periodo_ferias"
                  THEN Raise("KeyError")
             ELSE LET convertido ==
                        IF converter
                        THEN [i \in 1..Len(agg.valor.linhas) |->
                                [agg.valor.linhas[i] EXCEPT
                                    !.media_atrasos_partida = media_para_tempo(@),
                                    !.media_atrasos_chegada = media_para_tempo(@)]]
                        ELSE agg.valor.linhas
                  IN  Ok(DataFrame(sort_values_desc(convertido, "periodo_ferias",
                                                    "total_atrasos")))

get_cancelamentos_voos_ferias(cols_groupby, filtro_periodo_ferias, filtro_codigo_tipo_linha) ==
    IF ~dados_solidos THEN erro_dados
    ELSE LET cancelados == SelectSeq(get_voos_ferias.valor.linhas,
                               LAMBDA l : l.situacao_voo = "Cancelado")
             por_periodo == IF filtro_periodo_ferias # None
                            THEN SelectSeq(cancelados,
                                   LAMBDA l : l.periodo_ferias = filtro_periodo_ferias.texto)
                            ELSE cancelados
             por_linha == IF filtro_codigo_tipo_linha # None
                          THEN SelectSeq(por_periodo,
                                   LAMBDA l : l.codigo_tipo_linha = filtro_codigo_tipo_linha.texto)
                          ELSE por_periodo
             agg == IF Len(cols_groupby) = 0 THEN Raise("ValueError")
                    ELSE groupby_agg(por_linha, cols_groupby,
                           [total_cancelamentos |->
                                [col |-> cols_groupby[1], func |-> "size"]])
         IN  IF agg.erro # "" THEN agg
             ELSE IF \A i \in 1..Len(cols_groupby) : cols_groupby[i] # "periodo_ferias"
                  THEN Raise("KeyError")
             ELSE Ok(DataFrame(sort_values_desc(agg.valor.linhas, "periodo_ferias",
                                                "total_cancelamentos")))

\* variant: the guard on dados_solidos is missing
get_voos_ferias_resumo_sem_guarda(txs_columns, groupby_columns, round) ==
    IF dados = None THEN Raise("TypeError")
    ELSE LET dataframe ==
                groupby_agg(SelectSeq(dados.linhas, LAMBDA l : l.periodo_ferias # ""),
                    groupby_columns,
                    [voos |-> [col |-> "situacao_voo", func |-> "size"]]
                        @@ aggregation_columns)
         IN  IF dataframe.erro # "" THEN dataframe
             ELSE Ok(DataFrame(percentuais_em(dataframe.valor.linhas, txs_columns, round)))

get_voos_ferias_resumo(txs_columns, groupby_columns, round) ==
    IF ~dados_solidos THEN erro_dados
    ELSE LET dataframe ==
                groupby_agg(get_voos_ferias.valor.linhas, groupby_columns,
                    [voos |-> [col |-> "situacao_voo", func |-> "size"],
                     realizados_s_atraso |->
                        [col |-> "situacao_voo", func |-> "soma_igual",
                         valor |-> "Realizado Sem Atraso"],
                     realizados_c_atraso |->
                        [col |-> "situacao_voo", func |-> "soma_igual",
                         valor |-> "Realizado Com Atraso"],
                     cancelados |->
                        [col |-> "situacao_voo", func |-> "soma_igual",
                         valor |-> "Cancelado"]])
         IN  IF dataframe.erro # "" THEN dataframe
             ELSE Ok(DataFrame(percentuais_em(dataframe.valor.linhas, txs_columns, round)))

-----------------------------------------------------------------------------
(* The load/transform phase: rows are read, enriched by the rules in the    *)
(* order route, vacation period, delay flags, delay durations, status,     *)
(* justifications, and the record set is then marked solid.                *)

MaxRegistros == 3

trecho_internacional ==
    [codigo_tipo_linha |-> "Internacional",
     pais_origem |-> "Brasil", pais_destino |-> "Argentina",
     estado_origem |-> "SP", estado_destino |-> "N/I",
     cidade_origem |-> "Guarulhos", cidade_destino |-> "Buenos Aires",
     distancia_km |-> 1700]

trecho_nacional ==
    [codigo_tipo_linha |-> "Nacional",
     pais_origem |-> "Brasil", pais_destino |-> "Brasil",
     estado_origem |-> "SP", estado_destino |-> "RJ",
     cidade_origem |-> "Guarulhos", cidade_destino |-> "Rio De Janeiro",
     distancia_km |-> 360]

trecho_regional ==
    [codigo_tipo_linha |-> "Regional",
     pais_origem |-> "Brasil", pais_destino |-> "Brasil",
     estado_origem |-> "SP", estado_destino |-> "SP",
     cidade_origem |-> "Campinas", cidade_destino |-> "Santos",
     distancia_km |-> 120]

voo(trecho, situacao_voo, codigo_justificativa, partida_prevista, partida_real, chegada_prevista, chegada_real) ==
    [situacao_voo |-> situacao_voo, codigo_justificativa |-> codigo_justificativa,
     partida_prevista |-> partida_prevista, partida_real |-> partida_real,
     chegada_prevista |-> chegada_prevista, chegada_real |-> chegada_real]
        @@ trecho

\* the raw rows a file can hold: on time, delayed and cancelled flights, in
\* and out of the vacation months; a cancelled flight has no actual times
Brutos ==
    {voo(trecho_nacional, "Realizado", "",
         <<1, 1, 2016, 0, 0, 0>>, <<1, 1, 2016, 0, 0, 0>>,
         <<2, 1, 2016, 1, 0, 0>>, <<2, 1, 2016, 1, 0, 0>>),
     voo(trecho_nacional, "Realizado", "TROCA DE AERONAVE",
         <<15, 7, 2016, 10, 30, 0>>, <<15, 7, 2016, 10, 35, 15>>,
         <<15, 7, 2016, 10, 30, 0>>, <<15, 7, 2016, 10, 35, 15>>),
     voo(trecho_internacional, "Realizado", "DEFEITOS DA AERONAVE",
         <<1, 1, 2016, 0, 0, 0>>, <<2, 1, 2016, 1, 0, 0>>,
         <<2, 1, 2016, 1, 0, 0>>, <<2, 1, 2016, 1, 0, 0>>),
     voo(trecho_internacional, "Cancelado", "PROGRAMADO - FERIADO NACIONAL",
         <<1, 1, 2016, 0, 0, 0>>, <<>>, <<2, 1, 2016, 1, 0, 0>>, <<>>),
     voo(trecho_regional, "Realizado", "",
         <<29, 2, 2016, 6, 30, 0>>, <<29, 2, 2016, 6, 30, 0>>,
         <<29, 2, 2016, 6, 30, 0>>, <<29, 2, 2016, 6, 30, 0>>),
     voo(trecho_regional, "Nao Informado", "",
         <<1, 1, 2016, 0, 0, 0>>, <<1, 1, 2016, 0, 0, 0>>,
         <<2, 1, 2016, 1, 0, 0>>, <<1, 1, 2016, 0, 0, 0>>)}

transformar(bruto) ==
    LET rota == criar_rota(bruto.codigo_tipo_linha, bruto.pais_origem,
                    bruto.pais_destino, bruto.estado_origem, bruto.estado_destino,
                    bruto.cidade_origem, bruto.cidade_destino)
        periodo == atribuir_periodo(bruto.partida_prevista).valor
        partida_atrasou == validar_atraso(bruto.situacao_voo,
                               bruto.partida_prevista, bruto.partida_real).valor
        chegada_atrasou == validar_atraso(bruto.situacao_voo,
                               bruto.chegada_prevista, bruto.chegada_real).valor
    IN  [codigo_tipo_linha |-> bruto.codigo_tipo_linha,
         rota |-> rota,
         periodo_ferias |-> periodo,
         partida_atrasou |-> partida_atrasou,
         chegada_atrasou |-> chegada_atrasou,
         tempo_atraso_partida |->
            calcular_atraso(partida_atrasou, bruto.partida_prevista,
                            bruto.partida_real).valor,
         tempo_atraso_chegada |->
            calcular_atraso(chegada_atrasou, bruto.chegada_prevista,
                            bruto.chegada_real).valor,
         situacao_voo |->
            atualizar_situacao_voo(bruto.situacao_voo, partida_atrasou, chegada_atrasou),
         justificativa_atraso |->
            atualizar_justificativa_atraso(partida_atrasou, chegada_atrasou,
                                           bruto.codigo_justificativa),
         justificativa_cancelamento |->
            atualizar_justificativa_cancelamento(bruto.situacao_voo,
                                                 bruto.codigo_justificativa),
         distancia_km |-> bruto.distancia_km]

\* the raw records handed to the rules one at a time: every status, codes of
\* both tables and of neither, and scheduled/actual times in every order
CodigosBrutos ==
    {"", "XX", "TROCA DE AERONAVE", "PROGRAMADO - FERIADO NACIONAL"}

ChegadasBrutas ==
    {<<<<2, 1, 2016, 1, 0, 0>>, <<2, 1, 2016, 1, 0, 0>>>>,
     <<<<15, 7, 2016, 10, 30, 0>>, <<15, 7, 2016, 10, 35, 15>>>>,
     <<<<15, 7, 2016, 10, 35, 15>>, <<15, 7, 2016, 10, 30, 0>>>>}

Regra_transformar ==
    \E situacao_voo \in Situacoes, codigo_justificativa \in CodigosBrutos, partida_prevista, partida_real \in Horarios, chegada \in ChegadasBrutas :
        LET bruto == voo(trecho_nacional, situacao_voo, codigo_justificativa,
                         partida_prevista, partida_real, chegada[1], chegada[2])
        IN  /\ chamada.op = ""
            /\ chamada' = [op |-> "transformar", bruto |-> bruto]
            /\ retorno' = Ok(transformar(bruto))
            /\ UNCHANGED <<dados, dados_solidos, dataframe_base, dataframe_description>>

NextRegras ==
    \/ Regra_validar_atraso
    \/ Regra_atualizar_situacao_voo
    \/ Regra_atualizar_justificativa_atraso
    \/ Regra_atualizar_justificativa_cancelamento
    \/ Regra_criar_rota
    \/ Regra_atribuir_periodo_ferias
    \/ Regra_calcular_atraso
    \/ Regra_motivo_atraso
    \/ Regra_motivo_cancelamento
    \/ Regra_nome_companhia_aerea_normalizado
    \/ Regra_atribuir_dia_semana
    \/ Regra_DescricaoColuna_get
    \/ Regra_DescricaoTipo_get
    \/ Regra_tipo_coluna
    \/ Regra_descricao_coluna
    \/ Regra_converter_tempo_para_segundos
    \/ Regra_converter_segundos_para_tempo
    \/ Regra_transformar
    \/ Regra_calcular_distancia_km

SpecRegras == InitRegras /\ [][NextRegras]_vars

Init ==
    /\ dados = None
    /\ dados_solidos = FALSE
    /\ dataframe_base = None
    /\ dataframe_description = None
    /\ chamada = [op |-> ""]
    /\ retorno = Ok("")

carregar_registro ==
    \E bruto \in Brutos :
        /\ chamada.op = ""
        /\ ~dados_solidos
        /\ IF dados = None THEN TRUE ELSE Len(dados.linhas) < MaxRegistros
        /\ dados' = DataFrame(Append(IF dados = None THEN <<>> ELSE dados.linhas,
                                     transformar(bruto)))
        /\ UNCHANGED <<dados_solidos, chamada, retorno, dataframe_base, dataframe_description>>

marcar_dados_solidos ==
    /\ chamada.op = ""
    /\ ~dados_solidos
    /\ dados # None
    /\ dados_solidos' = TRUE
    /\ UNCHANGED <<dados, chamada, retorno, dataframe_base, dataframe_description>>

-----------------------------------------------------------------------------
(* Calls of the aggregation entry points, with arguments from small sets.   *)
(* chamada and retorno record the call the caller is looking at: a call is *)
(* made, its outcome observed, and the caller moves on (Retornar).         *)

MaxRound == 2

MaxRanking == 2

ColsGroupby ==
    {<<>>, <<"periodo_ferias">>,
     <<"codigo_tipo_linha", "periodo_ferias", "rota">>}

Taxas ==
    <<<<"tx_realizados", "realizados_s_atraso">>,
      <<"tx_atrasos", "realizados_c_atraso">>,
      <<"tx_cancelados", "cancelados">>>>

\* the pairs (percentage columns, decimals) of a call
PercentuaisRound ==
    {<<<<>>, 0>>} \cup {<<Taxas, round>> : round \in 0..MaxRound}

FiltrosLinha == {None, Texto("Nacional")}

FiltrosPeriodo == {None, Texto("janeiro")}

Chamar_periodo_ferias ==
    /\ chamada.op = ""
    /\ chamada' = [op |-> "periodo_ferias"]
    /\ retorno' = periodo_ferias
    /\ UNCHANGED <<dados, dados_solidos, dataframe_base, dataframe_description>>

Chamar_tipo_linha ==
    /\ chamada.op = ""
    /\ chamada' = [op |-> "tipo_linha"]
    /\ retorno' = tipo_linha
    /\ UNCHANGED <<dados, dados_solidos, dataframe_base, dataframe_description>>

Chamar_get_voos_ferias ==
    /\ chamada.op = ""
    /\ chamada' = [op |-> "get_voos_ferias"]
    /\ retorno' = get_voos_ferias
    /\ UNCHANGED <<dados, dados_solidos, dataframe_base, dataframe_description>>

Chamar_get_voos_ferias_geral ==
    \E filtrar_periodo_ferias \in BOOLEAN, pr \in PercentuaisRound,
       cols_groupby \in ColsGroupby :
        /\ chamada.op = ""
        /\ chamada' = [op |-> "get_voos_ferias_geral",
                       filtrar_periodo_ferias |-> filtrar_periodo_ferias,
                       percentuais |-> pr[1], round |-> pr[2],
                       cols_groupby |-> cols_groupby]
        /\ retorno' = get_voos_ferias_geral(filtrar_periodo_ferias, pr[1],
                                            pr[2], cols_groupby)
        /\ UNCHANGED <<dados, dados_solidos, dataframe_base, dataframe_description>>

Chamar_get_voos_ferias_linha_periodo ==
    \E cols_groupyby \in ColsGroupby,
       pr \in {<<<<>>, 0>>, <<Taxas, MaxRound>>},
       ranking \in 0..MaxRanking,
       linha \in FiltrosLinha, periodo \in FiltrosPeriodo :
        /\ chamada.op = ""
        /\ chamada' = [op |-> "get_voos_ferias_linha_periodo",
                       cols_groupby |-> cols_groupyby,
                       percentuais |-> pr[1], round |-> pr[2],
                       ranking |-> ranking, linha |-> linha, periodo |-> periodo]
        /\ retorno' = get_voos_ferias_linha_periodo(cols_groupyby, pr[1],
                                                    pr[2], ranking, linha, periodo)
        /\ UNCHANGED <<dados, dados_solidos, dataframe_base, dataframe_description>>

Chamar_get_atrasos_voos_ferias ==
    \E cols_groupby \in {<<>>, <<"periodo_ferias", "justificativa_atraso">>,
                         <<"justificativa_atraso">>},
       converter \in BOOLEAN,
       filtro_periodo_ferias \in FiltrosPeriodo,
       filtro_codigo_tipo_linha \in FiltrosLinha :
        /\ chamada.op = ""
        /\ chamada' = [op |-> "get_atrasos_voos_ferias",
                       cols_groupby |-> cols_groupby, converter |-> converter,
                       periodo |-> filtro_periodo_ferias,
                       linha |-> filtro_codigo_tipo_linha]
        /\ retorno' = get_atrasos_voos_ferias(cols_groupby, converter,
                          filtro_periodo_ferias, filtro_codigo_tipo_linha)
        /\ dados' = dados_apos_get_atrasos_voos_ferias(filtro_periodo_ferias,
                                                       filtro_codigo_tipo_linha)
        /\ UNCHANGED <<dados_solidos, dataframe_base, dataframe_description>>

Chamar_get_cancelamentos_voos_ferias ==
    \E cols_groupby \in {<<>>, <<"periodo_ferias", "justificativa_cancelamento">>,
                         <<"justificativa_cancelamento">>},
       filtro_periodo_ferias \in FiltrosPeriodo,
       filtro_codigo_tipo_linha \in FiltrosLinha :
        /\ chamada.op = ""
        /\ chamada' = [op |-> "get_cancelamentos_voos_ferias",
                       cols_groupby |-> cols_groupby,
                       periodo |-> filtro_periodo_ferias,
                       linha |-> filtro_codigo_tipo_linha]
        /\ retorno' = get_cancelamentos_voos_ferias(cols_groupby,
                          filtro_periodo_ferias, filtro_codigo_tipo_linha)
        /\ UNCHANGED <<dados, dados_solidos, dataframe_base, dataframe_description>>

Chamar_get_voos_ferias_resumo ==
    \E pr \in PercentuaisRound, groupby_columns \in ColsGroupby :
        /\ chamada.op = ""
        /\ chamada' = [op |-> "get_voos_ferias_resumo",
                       percentuais |-> pr[1],
                       cols_groupby |-> groupby_columns, round |-> pr[2]]
        /\ retorno' = get_voos_ferias_resumo(pr[1], groupby_columns, pr[2])
        /\ UNCHANGED <<dados, dados_solidos, dataframe_base, dataframe_description>>

Retornar ==
    /\ chamada.op # ""
    /\ chamada' = [op |-> ""]
    /\ retorno' = Ok("")
    /\ UNCHANGED <<dados, dados_solidos, dataframe_base, dataframe_description>>

Next ==
    \/ carregar_registro
    \/ marcar_dados_solidos
    \/ Chamar_periodo_ferias
    \/ Chamar_tipo_linha
    \/ Chamar_get_voos_ferias
    \/ Chamar_get_voos_ferias_geral
    \/ Chamar_get_voos_ferias_linha_periodo
    \/ Chamar_get_atrasos_voos_ferias
    \/ Chamar_get_cancelamentos_voos_ferias
    \/ Chamar_get_voos_ferias_resumo
    \/ Retornar

Spec == Init /\ [][Next]_vars

-----------------------------------------------------------------------------
(* Flights: the frame of the CSV files, known by its column headers, and   *)
(* the description table built from the catalogs                           *)

Maiusculas ==
    <<"A", "B", "C", "D", "E", "F", "G", "H", "I", "J", "K", "L", "M",
      "N", "O", "P", "Q", "R", "S", "T", "U", "V", "W", "X", "Y", "Z">>

Minusculas ==
    <<"a", "b", "c", "d", "e", "f", "g", "h", "i", "j", "k", "l", "m",
      "n", "o", "p", "q", "r", "s", "t", "u", "v", "w", "x", "y", "z">>

\* char.isupper()
isupper(char) == \E i \in 1..Len(Maiusculas) : Maiusculas[i] = char

\* str.lower() of a header
str_lower(coluna) ==
    [i \in 1..Len(coluna) |->
        IF isupper(coluna[i])
        THEN Minusculas[CHOOSE k \in 1..Len(Maiusculas) : Maiusculas[k] = coluna[i]]
        ELSE coluna[i]]

\* str.replace(de, para), for one-character de and para
str_replace(coluna, de, para) ==
    [i \in 1..Len(coluna) |-> IF coluna[i] = de THEN para ELSE coluna[i]]

\* re.findall('[A-Z][^A-Z]*', coluna): one word from each upper-case letter
\* up to the character before the next one; what precedes the first
\* upper-case letter is in no word
RECURSIVE findall_palavras(_)
findall_palavras(coluna) ==
    LET inicios == {i \in 1..Len(coluna) : isupper(coluna[i])}
    IN  IF inicios = {} THEN <<>>
        ELSE LET ultimo == CHOOSE i \in inicios : \A k \in inicios : k <= i
             IN  Append(findall_palavras(SubSeq(coluna, 1, ultimo - 1)),
                        SubSeq(coluna, ultimo, Len(coluna)))

\* sep.join(palavras)
RECURSIVE join(_, _)
join(palavras, sep) ==
    IF palavras = <<>> THEN <<>>
    ELSE IF Len(palavras) = 1 THEN palavras[1]
    ELSE join(SubSeq(palavras, 1, Len(palavras) - 1), sep)
            \o <<sep>> \o palavras[Len(palavras)]

\* one pass of the loop of _tratar_colunas
tratar_coluna(coluna_bruta) ==
    LET coluna == str_replace(str_lower(coluna_bruta), ".", "_")
    IN  IF \E i \in 1..Len(coluna) : isupper(coluna[i])
        THEN LET palavras == findall_palavras(coluna)
             IN  join([k \in 1..Len(palavras) |-> str_lower(palavras[k])], "_")
        ELSE coluna

\* the text of a header
RECURSIVE texto_de(_)
texto_de(coluna) ==
    IF coluna = <<>> THEN ""
    ELSE texto_de(SubSeq(coluna, 1, Len(coluna) - 1)) \o coluna[Len(coluna)]

Base(columns) == [tipo |-> "DataFrame", columns |-> columns]

\* variant: the files are read again at every call
carregar_bases_sempre(base, lido) == lido

\* cls._dataframe_base after _carregar_bases, lido being what
\* CSV.carregar_bases() returns
carregar_bases(base, lido) == IF base = None THEN lido ELSE base

\* cls._dataframe_base after _tratar_colunas
tratar_colunas(base) ==
    IF base = None THEN base
    ELSE Base([i \in 1..Len(base.columns) |-> tratar_coluna(base.columns[i])])

\* the rows of the description table, or the error of reading the columns of
\* a frame that is None
carregar_descricao(base) ==
    IF base = None THEN Raise("AttributeError")
    ELSE Ok([i \in 1..Len(base.columns) |->
                LET nome_coluna == texto_de(base.columns[i])
                IN  <<nome_coluna, DescricaoTipo_get(nome_coluna).valor,
                      DescricaoColuna_get(nome_coluna).valor>>])

MaxColunas == 2

\* headers of CSV files: those of the flight files, as they are written
Cabecalhos ==
    {<<"V", "o", "o", "s">>,
     <<"C", "o", "m", "p", "a", "n", "h", "i", "a", ".", "A", "e", "r", "e", "a">>,
     <<"L", "o", "n", "g", "D", "e", "s", "t">>,
     <<"s", "i", "t", "u", "a", "c", "a", "o", "_", "v", "o", "o">>}

\* what CSV.carregar_bases() may read: frames of 1..MaxColunas columns
Arquivos ==
    UNION {[1..n -> Cabecalhos] : n \in 1..MaxColunas}

Flights_carregar_bases ==
    \E columns \in Arquivos :
        /\ chamada.op = ""
        /\ chamada' = [op |-> "_carregar_bases", base |-> dataframe_base]
        /\ dataframe_base' = carregar_bases(dataframe_base, Base(columns))
        /\ retorno' = Ok(None)
        /\ UNCHANGED <<dados, dados_solidos, dataframe_description>>

Flights_tratar_colunas ==
    /\ chamada.op = ""
    /\ chamada' = [op |-> "_tratar_colunas", base |-> dataframe_base]
    /\ dataframe_base' = tratar_colunas(dataframe_base)
    /\ retorno' = Ok(None)
    /\ UNCHANGED <<dados, dados_solidos, dataframe_description>>

Flights_carregar_descricao ==
    /\ chamada.op = ""
    /\ chamada' = [op |-> "_carregar_descricao", base |-> dataframe_base]
    /\ retorno' = IF carregar_descricao(dataframe_base).erro # ""
                  THEN carregar_descricao(dataframe_base) ELSE Ok(None)
    /\ dataframe_description' =
            IF carregar_descricao(dataframe_base).erro # "" THEN dataframe_description
            ELSE DataFrame(carregar_descricao(dataframe_base).valor)
    /\ UNCHANGED <<dados, dados_solidos, dataframe_base>>

\* Flights(carregar_bases, tratar_colunas)
Flights_init ==
    \E carregar \in BOOLEAN, tratar \in BOOLEAN, columns \in Arquivos :
        LET carregada == IF carregar THEN carregar_bases(dataframe_base, Base(columns))
                         ELSE dataframe_base
            tratada == IF tratar THEN tratar_colunas(carregada) ELSE carregada
        IN  /\ chamada.op = ""
            /\ chamada' = [op |-> "__init__", base |-> dataframe_base,
                           carregar_bases |-> carregar, tratar_colunas |-> tratar]
            /\ dataframe_base' = tratada
            /\ IF dataframe_description # None
               THEN retorno' = Ok(None) /\ UNCHANGED dataframe_description
               ELSE IF carregar_descricao(tratada).erro # ""
               THEN retorno' = carregar_descricao(tratada) /\ UNCHANGED dataframe_description
               ELSE /\ retorno' = Ok(None)
                    /\ dataframe_description' = DataFrame(carregar_descricao(tratada).valor)
            /\ UNCHANGED <<dados, dados_solidos>>

Flights_retornar ==
    /\ chamada.op # ""
    /\ chamada' = [op |-> ""]
    /\ retorno' = Ok("")
    /\ UNCHANGED <<dados, dados_solidos, dataframe_base, dataframe_description>>

NextFlights ==
    \/ Flights_carregar_bases
    \/ Flights_tratar_colunas
    \/ Flights_carregar_descricao
    \/ Flights_init
    \/ Flights_retornar

SpecFlights == InitRegras /\ [][NextFlights]_vars

-----------------------------------------------------------------------------
(* Properties of the derivation rules (checked under SpecRegras) *)

\* the reading order of two well-formed timestamp texts: a is strictly later
\* than b when it is greater on (year, month, day, hour, minute, second)
posterior(a, b) ==
    LET ka == <<a[3], a[2], a[1], a[4], a[5], a[6]>>
        kb == <<b[3], b[2], b[1], b[4], b[5], b[6]>>
    IN  \E i \in 1..6 : ka[i] > kb[i] /\ \A j \in 1..(i - 1) : ka[j] = kb[j]

SituacoesBrutas == Situacoes \ {"Realizado Com Atraso", "Realizado Sem Atraso"}

\* C2 as stated: a delay flag returned by validar_atraso is the empty string
\* exactly when the record's status is "Cancelado"; a status other than
\* "Cancelado" never gets an empty flag.
C2_FlagVazioSseCancelado ==
    (chamada.op = "validar_atraso" /\ retorno.erro = "")
        => (retorno.valor = "" <=> chamada.situacao = "Cancelado")

\* C2 amended: a delay flag returned by validar_atraso is the empty string
\* exactly when the record's status equals "cancelado" ignoring case; a record
\* with status "Cancelado" never has flag 'S' or 'N', and a record whose status
\* differs from "cancelado" ignoring case never has an empty flag.
C2_FlagVazioSseCanceladoSemCaixa ==
    (chamada.op = "validar_atraso" /\ retorno.erro = "")
        => /\ retorno.valor = ""
                <=> chamada.situacao \in {"Cancelado", "CANCELADO", "cancelado"}
           /\ chamada.situacao = "Cancelado" => retorno.valor \notin {"S", "N"}

C2_Witness ==
    /\ chamada.op = "validar_atraso"
    /\ chamada.situacao = "CANCELADO"
    /\ chamada.dt_prevista = <<15, 7, 2016, 10, 30, 0>>
    /\ chamada.dt_real = <<15, 7, 2016, 10, 35, 15>>
    /\ retorno = Ok("")

\* C3: atualizar_situacao_voo returns "Realizado Com Atraso" for status
\* "Realizado" with a flag 'S', "Realizado Sem Atraso" for status "Realizado"
\* with both flags 'N', and the status unchanged for every other input; a
\* variant that differs from the input status was assigned to a "Realizado".
C3_AtualizarSituacao ==
    chamada.op = "atualizar_situacao_voo"
        => LET st == chamada.situacao
               p == chamada.partida_atrasou
               c == chamada.chegada_atrasou
           IN  /\ retorno.erro = ""
               /\ (st = "Realizado" /\ (p = "S" \/ c = "S"))
                    => retorno.valor = "Realizado Com Atraso"
               /\ (st = "Realizado" /\ p = "N" /\ c = "N")
                    => retorno.valor = "Realizado Sem Atraso"
               /\ ~(st = "Realizado" /\ (p = "S" \/ c = "S"))
                    /\ ~(st = "Realizado" /\ p = "N" /\ c = "N")
                    => retorno.valor = st
               /\ (retorno.valor \in {"Realizado Com Atraso", "Realizado Sem Atraso"}
                    /\ retorno.valor # st) => st = "Realizado"

C3_Witness ==
    /\ chamada.op = "atualizar_situacao_voo"
    /\ chamada.situacao = "Realizado"
    /\ chamada.partida_atrasou = "N"
    /\ chamada.chegada_atrasou = "S"
    /\ retorno = Ok("Realizado Com Atraso")

\* C4: for every raw status and every pair of delay flags, the status after
\* atualizar_situacao_voo is "Realizado Com Atraso" if and only if the status
\* before was "Realizado" and the departure or the arrival flag is 'S'.
C4_ComAtrasoSse ==
    (chamada.op = "atualizar_situacao_voo" /\ chamada.situacao \in SituacoesBrutas)
        => (retorno.valor = "Realizado Com Atraso"
                <=> /\ chamada.situacao = "Realizado"
                    /\ (chamada.partida_atrasou = "S" \/ chamada.chegada_atrasou = "S"))

C4_Witness ==
    /\ chamada.op = "atualizar_situacao_voo"
    /\ chamada.situacao = "Nao Informado"
    /\ chamada.partida_atrasou = "S"
    /\ chamada.chegada_atrasou = "N"
    /\ retorno = Ok("Nao Informado")

C6_Justificativas ==
    /\ chamada.op = "atualizar_justificativa_atraso"
        => (retorno.valor # ""
                <=> (chamada.partida_atrasou = "S" \/ chamada.chegada_atrasou = "S"))
    /\ chamada.op = "atualizar_justificativa_cancelamento"
        => (retorno.valor # "" <=> chamada.situacao_voo = "Cancelado")

C6_Witness ==
    /\ chamada.op = "atualizar_justificativa_atraso"
    /\ chamada.partida_atrasou = "N"
    /\ chamada.chegada_atrasou = "S"
    /\ chamada.codigo_justificativa = "TROCA DE AERONAVE"
    /\ retorno = Ok("Troca de aeronave")

-----------------------------------------------------------------------------
(* Properties of the aggregation entry points (checked under Spec) *)

EntradasAgregacao ==
    {"get_voos_ferias", "get_voos_ferias_geral", "get_voos_ferias_linha_periodo",
     "get_atrasos_voos_ferias", "get_cancelamentos_voos_ferias",
     "get_voos_ferias_resumo"}

Resumos ==
    {"get_voos_ferias_geral", "get_voos_ferias_linha_periodo",
     "get_voos_ferias_resumo"}

\* the call on view produced a summary table
resumo_devolvido == chamada.op \in Resumos /\ retorno.erro = ""

\* positions, in dados, of the records that pass the filters of the call on view
registros_filtrados ==
    {i \in 1..Len(dados.linhas) :
        LET l == dados.linhas[i]
        IN  CASE chamada.op = "get_voos_ferias_geral" ->
                    chamada.filtrar_periodo_ferias => l.periodo_ferias # ""
              [] chamada.op = "get_voos_ferias_resumo" -> l.periodo_ferias # ""
              [] chamada.op = "get_voos_ferias_linha_periodo" ->
                    /\ chamada.linha # None
                          => l.codigo_tipo_linha = chamada.linha.texto
                    /\ chamada.periodo # None
                          => l.periodo_ferias = chamada.periodo.texto}

\* the record at position i has the grouping-key values of summary row r
no_grupo(i, r) ==
    \A n \in 1..Len(chamada.cols_groupby) :
        dados.linhas[i][chamada.cols_groupby[n]] = r[chamada.cols_groupby[n]]

membros(r) == {i \in registros_filtrados : no_grupo(i, r)}

com_situacao(r, situacao) ==
    Cardinality({i \in membros(r) : dados.linhas[i].situacao_voo = situacao})

linhas_devolvidas == retorno.valor.linhas

\* C1: while dados_solidos is false every aggregation entry point raises the
\* data-state error and returns no result, whatever dados holds and whatever
\* the arguments are.
C1_ErroSemDadosSolidos ==
    (chamada.op \in EntradasAgregacao /\ ~dados_solidos)
        => retorno.erro = "ValueError" /\ "valor" \notin DOMAIN retorno

C1_Witness ==
    /\ ~dados_solidos
    /\ dados # None
    /\ Len(dados.linhas) = 2
    /\ chamada.op = "get_voos_ferias_resumo"
    /\ chamada.cols_groupby = <<"periodo_ferias">>
    /\ retorno = [erro |-> "ValueError"]

\* C7: in every summary row, voos is the number of input records of the
\* group, realizados_s_atraso the number of them with status "Realizado Sem
\* Atraso", realizados_c_atraso the number with "Realizado Com Atraso" and
\* cancelados the number with "Cancelado".
C7_Contagens ==
    resumo_devolvido
        => \A n \in 1..Len(linhas_devolvidas) :
              LET r == linhas_devolvidas[n]
              IN  /\ r.voos = Cardinality(membros(r))
                  /\ r.realizados_s_atraso = com_situacao(r, "Realizado Sem Atraso")
                  /\ r.realizados_c_atraso = com_situacao(r, "Realizado Com Atraso")
                  /\ r.cancelados = com_situacao(r, "Cancelado")

C7_Witness ==
    /\ chamada.op = "get_voos_ferias_geral"
    /\ chamada.cols_groupby = <<"periodo_ferias">>
    /\ retorno.erro = ""
    /\ Len(dados.linhas) = 3
    /\ \E n \in 1..Len(linhas_devolvidas) :
          /\ linhas_devolvidas[n].periodo_ferias = "janeiro"
          /\ linhas_devolvidas[n].voos = 3
          /\ linhas_devolvidas[n].realizados_s_atraso = 1
          /\ linhas_devolvidas[n].realizados_c_atraso = 1
          /\ linhas_devolvidas[n].cancelados = 1

\* the distinct combinations of grouping-key values among the filtered records
combinacoes ==
    {[n \in 1..Len(chamada.cols_groupby) |-> dados.linhas[i][chamada.cols_groupby[n]]] :
        i \in registros_filtrados}

combinacao_de(r) == [n \in 1..Len(chamada.cols_groupby) |-> r[chamada.cols_groupby[n]]]

C9_Percentuais ==
    /\ round_div(6, 10, 2) = [num |-> 60, casas |-> 2]
    /\ (resumo_devolvido /\ chamada.percentuais # <<>>)
        => \A n \in 1..Len(linhas_devolvidas) :
              LET r == linhas_devolvidas[n]
              IN  /\ \A k \in 1..Len(chamada.percentuais) :
                        LET alvo == r[chamada.percentuais[k][1]]
                            fonte == r[chamada.percentuais[k][2]]
                            erro == alvo.num * r.voos - fonte * 10^chamada.round
                        IN  /\ alvo.casas = chamada.round
                            /\ 2 * erro <= r.voos
                            /\ -2 * erro <= r.voos
                  /\ r.voos = Cardinality(membros(r))
                  /\ r.realizados_s_atraso = com_situacao(r, "Realizado Sem Atraso")
                  /\ r.realizados_c_atraso = com_situacao(r, "Realizado Com Atraso")
                  /\ r.cancelados = com_situacao(r, "Cancelado")

C9_Witness ==
    /\ chamada.op = "get_voos_ferias_resumo"
    /\ chamada.round = 2
    /\ retorno.erro = ""
    /\ \E n \in 1..Len(linhas_devolvidas) :
          /\ linhas_devolvidas[n].voos = 3
          /\ linhas_devolvidas[n].realizados_c_atraso = 2
          /\ linhas_devolvidas[n].tx_atrasos = [num |-> 67, casas |-> 2]
          /\ linhas_devolvidas[n].tx_cancelados = [num |-> 0, casas |-> 2]

\* number of filtered records with combination k
voos_de(k) ==
    Cardinality({i \in registros_filtrados :
        \A n \in 1..Len(chamada.cols_groupby) :
            dados.linhas[i][chamada.cols_groupby[n]] = k[n]})

min(a, b) == IF a < b THEN a ELSE b

\* C10: get_voos_ferias_linha_periodo with ranking K returns min(K, number of
\* groups) rows, by voos descending; no omitted group has more voos than a
\* returned one; groups with equal voos keep the order of the groups, among
\* the returned rows and between a returned and an omitted group.
C10_Ranking ==
    (chamada.op = "get_voos_ferias_linha_periodo" /\ retorno.erro = "")
        => /\ Len(linhas_devolvidas) = min(chamada.ranking, Cardinality(combinacoes))
           /\ \A n, m \in 1..Len(linhas_devolvidas) :
                n < m =>
                    \/ linhas_devolvidas[n].voos > linhas_devolvidas[m].voos
                    \/ /\ linhas_devolvidas[n].voos = linhas_devolvidas[m].voos
                       /\ chave_lt(combinacao_de(linhas_devolvidas[n]),
                                   combinacao_de(linhas_devolvidas[m]))
           /\ \A k \in combinacoes :
                (\A n \in 1..Len(linhas_devolvidas) :
                    combinacao_de(linhas_devolvidas[n]) # k)
                => \A n \in 1..Len(linhas_devolvidas) :
                      \/ voos_de(k) < linhas_devolvidas[n].voos
                      \/ /\ voos_de(k) = linhas_devolvidas[n].voos
                         /\ chave_lt(combinacao_de(linhas_devolvidas[n]), k)

C10_Witness ==
    /\ chamada.op = "get_voos_ferias_linha_periodo"
    /\ chamada.ranking = 2
    /\ chamada.linha = None
    /\ chamada.periodo = None
    /\ chamada.cols_groupby = <<"codigo_tipo_linha", "periodo_ferias", "rota">>
    /\ retorno.erro = ""
    /\ Cardinality(combinacoes) = 3
    /\ Len(linhas_devolvidas) = 2
    /\ linhas_devolvidas[1].rota = "Brasil - Argentina"
    /\ linhas_devolvidas[1].voos = 1
    /\ linhas_devolvidas[2].rota = "SP - RJ"
    /\ linhas_devolvidas[2].voos = 1

\* the result of making again, in the state on view, the call on view
resultado_da_chamada ==
    CASE chamada.op = "periodo_ferias" -> periodo_ferias
      [] chamada.op = "tipo_linha" -> tipo_linha
      [] chamada.op = "get_voos_ferias" -> get_voos_ferias
      [] chamada.op = "get_voos_ferias_geral" ->
            get_voos_ferias_geral(chamada.filtrar_periodo_ferias, chamada.percentuais,
                                  chamada.round, chamada.cols_groupby)
      [] chamada.op = "get_voos_ferias_linha_periodo" ->
            get_voos_ferias_linha_periodo(chamada.cols_groupby, chamada.percentuais,
                                          chamada.round, chamada.ranking,
                                          chamada.linha, chamada.periodo)
      [] chamada.op = "get_atrasos_voos_ferias" ->
            get_atrasos_voos_ferias(chamada.cols_groupby, chamada.converter,
                                    chamada.periodo, chamada.linha)
      [] chamada.op = "get_cancelamentos_voos_ferias" ->
            get_cancelamentos_voos_ferias(chamada.cols_groupby, chamada.periodo,
                                          chamada.linha)
      [] chamada.op = "get_voos_ferias_resumo" ->
            get_voos_ferias_resumo(chamada.percentuais, chamada.cols_groupby,
                                   chamada.round)
      [] OTHER -> Ok("")

\* C11: a query or aggregation call, whether it returns or raises, leaves
\* dados and dados_solidos as they were before it, and the same call made
\* again in the state it leaves gives the result it gave.
C11_SomenteLeitura ==
    [][/\ chamada'.op # "" => dados' = dados /\ dados_solidos' = dados_solidos
       /\ chamada.op # "" => retorno = resultado_da_chamada]_vars

C11_Witness ==
    /\ dados_solidos
    /\ chamada.op = "get_atrasos_voos_ferias"
    /\ chamada.cols_groupby = <<"periodo_ferias", "justificativa_atraso">>
    /\ ~chamada.converter
    /\ retorno.erro = ""
    /\ Len(retorno.valor.linhas) = 2
    /\ \E i \in 1..Len(dados.linhas) : dados.linhas[i].tempo_atraso_partida = <<25, 0, 0>>

-----------------------------------------------------------------------------
(* Further properties of the derivation rules (checked under SpecRegras) *)

\* C12: criar_rota gives "<origin country> - <destination country>" for the
\* line type "Internacional", "<origin state> - <destination state>" for
\* "Nacional" and "<origin city> - <destination city>" for every other line
\* type, whatever the values of the pairs it does not select.
C12_CriarRota ==
    chamada.op = "criar_rota"
        => LET par == CASE chamada.codigo_tipo_linha = "Internacional" ->
                              <<chamada.pais_origem, chamada.pais_destino>>
                        [] chamada.codigo_tipo_linha = "Nacional" ->
                              <<chamada.estado_origem, chamada.estado_destino>>
                        [] OTHER -> <<chamada.cidade_origem, chamada.cidade_destino>>
           IN  /\ retorno = Ok(par[1] \o " - " \o par[2])
               /\ (chamada.codigo_tipo_linha = "Internacional" /\ par = <<"Brasil", "Argentina">>)
                      => retorno.valor = "Brasil - Argentina"
               /\ (chamada.codigo_tipo_linha = "Nacional" /\ par = <<"SP", "RJ">>)
                      => retorno.valor = "SP - RJ"
               /\ (chamada.codigo_tipo_linha = "Regional" /\ par = <<"Campinas", "Santos">>)
                      => retorno.valor = "Campinas - Santos"

C12_Witness ==
    /\ chamada.op = "criar_rota"
    /\ chamada.codigo_tipo_linha = "NACIONAL"
    /\ chamada.pais_origem = "Argentina"
    /\ chamada.estado_origem = "RJ"
    /\ retorno = Ok("Santos - Campinas")

\* C13: for well-formed scheduled departures atribuir_periodo_ferias gives
\* "janeiro" for month 1, "julho" for month 7, "dezembro" for month 12 and ""
\* for each of the other nine months, whatever the day, year and time.
C13_PeriodoFerias ==
    (chamada.op = "atribuir_periodo_ferias"
        /\ \A i \in 1..Len(chamada.data) : chamada.data[i] \in Datas \cup Horarios)
        => /\ retorno.erro = ""
           /\ Len(retorno.valor) = Len(chamada.data)
           /\ \A i \in 1..Len(chamada.data) :
                /\ retorno.valor[i] \in {"janeiro", "julho", "dezembro", ""}
                /\ retorno.valor[i] = "janeiro" <=> chamada.data[i][2] = 1
                /\ retorno.valor[i] = "julho" <=> chamada.data[i][2] = 7
                /\ retorno.valor[i] = "dezembro" <=> chamada.data[i][2] = 12

C13_Witness ==
    /\ chamada.op = "atribuir_periodo_ferias"
    /\ chamada.data = <<<<7, 12, 2016, 23, 59, 59>>, <<1, 1, 2016, 0, 0, 0>>>>
    /\ retorno = Ok(<<"dezembro", "janeiro">>)

\* seconds from the well-formed timestamp text a to the well-formed text b
segundos_entre(a, b) ==
    (strptime(b).dia - strptime(a).dia) * 86400 + (strptime(b).seg - strptime(a).seg)

abs(n) == IF n < 0 THEN -n ELSE n

\* C14: calcular_atraso returns the empty text when the flag is neither "S"
\* nor "s"; otherwise, for well-formed timestamps in either order, it returns
\* the absolute difference between actual and scheduled as HH:MM:SS, minutes
\* and seconds in 0..59 and hours not wrapped at 24.
C14_AtrasoAbsoluto ==
    chamada.op = "calcular_atraso"
        => IF chamada.atrasou \notin {"S", "s"} THEN retorno = Ok(<<>>)
           ELSE (chamada.prevista \in Horarios /\ chamada.real \in Horarios)
                => LET d == abs(segundos_entre(chamada.prevista, chamada.real))
                   IN  retorno = Ok(<<d \div 3600, (d % 3600) \div 60, d % 60>>)

\* a flagged call whose actual time is 5 minutes 15 seconds before the
\* scheduled one returns -1:54:45
C14_Witness ==
    /\ chamada.op = "calcular_atraso"
    /\ chamada.atrasou = "S"
    /\ chamada.prevista = <<15, 7, 2016, 10, 35, 15>>
    /\ chamada.real = <<15, 7, 2016, 10, 30, 0>>
    /\ retorno = Ok(<<-1, 54, 45>>)

\* the timestamp arguments of the call on view
horarios_da_chamada ==
    IF chamada.op = "validar_atraso" THEN {chamada.dt_prevista, chamada.dt_real}
    ELSE {chamada.prevista, chamada.real}

\* C15: validar_atraso and calcular_atraso raise the parse error, returning
\* nothing, whenever one of the timestamps is not in the format, for every
\* status and every flag.
C15_ErroDeFormato ==
    (chamada.op \in {"validar_atraso", "calcular_atraso"}
        /\ horarios_da_chamada \cap HorariosMalFormados # {})
        => retorno.erro = "ValueError" /\ "valor" \notin DOMAIN retorno

\* C15, amended: the parse error is raised whenever one of the timestamps is
\* not in the format and the rule reads them: validar_atraso for a status
\* other than "cancelado" (ignoring case), calcular_atraso for the flag "S" or
\* "s"; otherwise the rule returns the empty text without reading them.
C15_ErroDeFormatoQuandoLido ==
    (chamada.op \in {"validar_atraso", "calcular_atraso"}
        /\ horarios_da_chamada \cap HorariosMalFormados # {})
        => LET lido == IF chamada.op = "validar_atraso"
                       THEN chamada.situacao \notin {"Cancelado", "CANCELADO", "cancelado"}
                       ELSE chamada.atrasou \in {"S", "s"}
           IN  IF lido
               THEN retorno.erro = "ValueError" /\ "valor" \notin DOMAIN retorno
               ELSE IF chamada.op = "validar_atraso" THEN retorno = Ok("")
               ELSE retorno = Ok(<<>>)

C15_Witness ==
    /\ chamada.op = "validar_atraso"
    /\ chamada.situacao = "Realizado"
    /\ chamada.dt_prevista = <<1, 1, 2016, 0, 0, 0>>
    /\ chamada.dt_real = <<30, 2, 2015, 6, 30, 0>>
    /\ retorno = [erro |-> "ValueError"]

\* C16: the three reference-table lookups return a value for every input
\* text: for a key that is not in its table, nome_companhia_aerea_normalizado
\* returns the input, motivo_atraso "Atraso não especificado" and
\* motivo_cancelamento "Cancelamento não especificado"; for a key of the table
\* each returns the value the table gives it.
C16_Consultas ==
    /\ chamada.op = "nome_companhia_aerea_normalizado"
        => /\ retorno.erro = ""
           /\ (\A i \in 1..Len(normalizados) : normalizados[i][1] # chamada.companhia_aerea)
                => retorno.valor = chamada.companhia_aerea
           /\ \A i \in 1..Len(normalizados) :
                normalizados[i][1] = chamada.companhia_aerea
                    => retorno.valor = normalizados[i][2]
           /\ chamada.companhia_aerea = "AEROLINEAS ARGENTINAS"
                => retorno.valor = "Aerolineas Argentinas"
    /\ chamada.op = "motivo_atraso"
        => /\ retorno.erro = ""
           /\ chamada.motivo \notin CodigosAtraso
                => retorno.valor = "Atraso não especificado"
           /\ chamada.motivo = "AEROPORTO COM RESTRICOES OPERACIONAIS"
                => retorno.valor = "Restrições operacionais no aeroporto"
           /\ chamada.motivo = "TROCA DE AERONAVE"
                => retorno.valor = "Troca de aeronave"
           /\ chamada.motivo = "ATRASOS NAO ESPECIFICOS - OUTROS"
                => retorno.valor = "Atraso não especificado"
    /\ chamada.op = "motivo_cancelamento"
        => /\ retorno.erro = ""
           /\ chamada.motivo \notin CodigosCancelamento
                => retorno.valor = "Cancelamento não especificado"
           /\ chamada.motivo = "PROGRAMADO - FERIADO NACIONAL"
                => retorno.valor = "Feriado nacional"
           /\ chamada.motivo = "CANCELAMENTO POR MOTIVOS TECNICOS - OPERACIONAIS"
                => retorno.valor = "Motivos técnicos-operacionais"

C16_Witness ==
    /\ chamada.op = "nome_companhia_aerea_normalizado"
    /\ chamada.companhia_aerea = "VARIG"
    /\ retorno = Ok("VARIG")

\* C17: normalizing an airline name twice gives what normalizing it once
\* gives, for every raw name of the list and every name that is not one.
C17_NormalizacaoIdempotente ==
    chamada.op = "nome_companhia_aerea_normalizado"
        => /\ retorno.erro = ""
           /\ nome_companhia_aerea_normalizado(retorno.valor) = retorno.valor

C17_Witness ==
    /\ chamada.op = "nome_companhia_aerea_normalizado"
    /\ chamada.companhia_aerea = "TAM TRANSP. AR. DEL. MERCOS"
    /\ retorno = Ok("TAM Transp. Ar. Del. Mercos")
    /\ nome_companhia_aerea_normalizado("TAM") = "TAM"

\* the seven English weekday names with their Portuguese names
NomesDiasSemana ==
    {<<"Monday", "segunda-feira">>, <<"Tuesday", "terça-feira">>,
     <<"Wednesday", "quarta-feira">>, <<"Thursday", "quinta-feira">>,
     <<"Friday", "sexta-feira">>, <<"Saturday", "sábado">>, <<"Sunday", "domingo">>}

\* C18: atribuir_dia_semana gives each of the seven English weekday names,
\* in their exact capitalisation, its Portuguese name, and for every other
\* text raises an error: it returns neither a default nor the text.
C18_DiaSemana ==
    chamada.op = "atribuir_dia_semana"
        => IF \E par \in NomesDiasSemana : par[1] = chamada.dia_semana
           THEN \E par \in NomesDiasSemana :
                    par[1] = chamada.dia_semana /\ retorno = Ok(par[2])
           ELSE retorno.erro # "" /\ "valor" \notin DOMAIN retorno

C18_Witness ==
    /\ chamada.op = "atribuir_dia_semana"
    /\ chamada.dia_semana = "monday"
    /\ retorno = [erro |-> "KeyError"]

\* the catalog and the field that the lookup on view reads
catalogo_da_chamada ==
    CASE chamada.op = "DescricaoColuna.get" -> <<DescricaoColuna, 2>>
      [] chamada.op = "DescricaoTipo.get" -> <<DescricaoTipo, 2>>
      [] chamada.op = "Utils.tipo_coluna" -> <<Utils, 2>>
      [] chamada.op = "Utils.descricao_coluna" -> <<Utils, 3>>

\* C19: every column-catalog lookup returns the registered type or
\* description for a registered column name, and for every other name
\* returns the "not found" value without raising.
C19_ConsultaCatalogo ==
    chamada.op \in {"DescricaoColuna.get", "DescricaoTipo.get",
                    "Utils.tipo_coluna", "Utils.descricao_coluna"}
        => LET catalogo == catalogo_da_chamada[1]
               campo == catalogo_da_chamada[2]
               registrados == {i \in 1..Len(catalogo) : catalogo[i][1] = chamada.nome_coluna}
           IN  IF registrados # {}
               THEN \E i \in registrados : retorno = Ok(Texto(catalogo[i][campo]))
               ELSE retorno = Ok(None)

\* Utils.tipo_coluna raises KeyError for a name that is no column
C19_Witness ==
    /\ chamada.op = "Utils.tipo_coluna"
    /\ chamada.nome_coluna = "xx"
    /\ retorno = [erro |-> "KeyError"]

-----------------------------------------------------------------------------
(* Properties of Flights (checked under SpecFlights) *)

\* a lower-case letter
islower(char) == \E i \in 1..Len(Minusculas) : Minusculas[i] = char

\* a header in lower case with '.' as '_' and with its words, where a word
\* starts at an upper-case letter that follows a lower-case one, joined by '_'
RECURSIVE em_palavras(_)
em_palavras(coluna) ==
    IF coluna = <<>> THEN <<>>
    ELSE LET n == Len(coluna)
             c == IF coluna[n] = "." THEN "_" ELSE str_lower(<<coluna[n]>>)[1]
             antes == em_palavras(SubSeq(coluna, 1, n - 1))
         IN  IF n > 1 /\ isupper(coluna[n]) /\ islower(coluna[n - 1])
             THEN antes \o <<"_", c>>
             ELSE antes \o <<c>>

\* C20: _tratar_colunas puts every header in lower case, replaces each '.'
\* by '_', and splits a mixed-case header into its words joined by '_', so
\* that "LongDest" becomes "long_dest".
C20_TratarColunas ==
    (chamada.op = "_tratar_colunas" /\ chamada.base # None)
        => /\ Len(dataframe_base.columns) = Len(chamada.base.columns)
           /\ \A i \in 1..Len(chamada.base.columns) :
                /\ dataframe_base.columns[i] = em_palavras(chamada.base.columns[i])
                /\ chamada.base.columns[i] = <<"L", "o", "n", "g", "D", "e", "s", "t">>
                    => texto_de(dataframe_base.columns[i]) = "long_dest"

\* the header "LongDest" becomes "longdest"
C20_Witness ==
    /\ chamada.op = "_tratar_colunas"
    /\ chamada.base = Base(<<<<"L", "o", "n", "g", "D", "e", "s", "t">>>>)
    /\ texto_de(dataframe_base.columns[1]) = "longdest"
-----------------------------------------------------------------------------
(* Properties of the cached frames of Flights (checked under SpecFlights) *)

\* a header whatever its case and its separator
sem_caixa(coluna) == str_replace(str_lower(coluna), ".", "_")

\* two frames hold the same reading of the files: the same columns, in the
\* same order, up to the renaming of the headers
mesma_leitura(antes, depois) ==
    /\ Len(depois.columns) = Len(antes.columns)
    /\ \A i \in 1..Len(antes.columns) :
            sem_caixa(depois.columns[i]) = sem_caixa(antes.columns[i])

\* C21: the dataset is loaded at most once: once the cached frame is loaded,
\* no later step (a construction of Flights with any flags, or a call of one
\* of its class methods) unloads it or replaces it by a newly read frame; the
\* cached frame stays the reading it was, at most with its headers renamed.
C21_CarregadaUmaVez ==
    [][dataframe_base # None
        => (dataframe_base' # None /\ mesma_leitura(dataframe_base, dataframe_base'))]_vars

\* a construction with carregar_bases=True on a frame already loaded, which
\* is still the cached frame afterwards
C21_Witness ==
    /\ chamada.op = "__init__"
    /\ chamada.carregar_bases
    /\ ~chamada.tratar_colunas
    /\ chamada.base = Base(<<<<"V", "o", "o", "s">>>>)
    /\ dataframe_base = chamada.base
\* the column names listed in the description table, in the order of its rows
nomes_descritos == [i \in 1..Len(dataframe_description.linhas) |-> dataframe_description.linhas[i][1]]

\* the column names of the cached frame, in order
nomes_das_colunas == [i \in 1..Len(dataframe_base.columns) |-> texto_de(dataframe_base.columns[i])]

\* C28: once the description table is cached, the column names it lists are
\* the current column names of the loaded dataset, in the same order.
C28_DescricaoAtual ==
    (dataframe_description # None /\ dataframe_base # None)
        => nomes_descritos = nomes_das_colunas

\* Flights(False, True) on the frame a former Flights(True, False) loaded and
\* described: the header "Voos" is now "voos" and the table still lists "Voos"
C28_Witness ==
    /\ chamada.op = "__init__"
    /\ ~chamada.carregar_bases
    /\ chamada.tratar_colunas
    /\ chamada.base = Base(<<<<"V", "o", "o", "s">>>>)
    /\ nomes_das_colunas = <<"voos">>
    /\ dataframe_description # None
    /\ nomes_descritos = <<"Voos">>
-----------------------------------------------------------------------------
(* Properties of the duration converters (checked under SpecRegras) *)

\* a value converter_tempo_para_segundos can convert: a text of three numeric
\* fields
tempo_convertivel(tempo) ==
    IF tempo.tipo # "str" THEN FALSE
    ELSE IF Len(tempo.campos) # 3 THEN FALSE
    ELSE \A i \in 1..3 : "digitos" \in DOMAIN tempo.campos[i]

\* a value converter_segundos_para_tempo can convert: an int, or a text that
\* is one number
segundos_convertiveis(segundos) ==
    IF segundos.tipo = "int" THEN TRUE
    ELSE IF segundos.tipo # "str" THEN FALSE
    ELSE IF Len(segundos.campos) # 1 THEN FALSE
    ELSE "digitos" \in DOMAIN segundos.campos[1]

\* C22: the duration converters never surface a conversion failure: neither
\* raises, converter_tempo_para_segundos returns 0 and
\* converter_segundos_para_tempo returns "00:00:00" for every input they
\* cannot convert.
C22_SemFalhaDeConversao ==
    /\ chamada.op = "converter_tempo_para_segundos"
        => /\ retorno.erro = ""
           /\ ~tempo_convertivel(chamada.tempo) => retorno = Ok(0)
    /\ chamada.op = "converter_segundos_para_tempo"
        => /\ retorno.erro = ""
           /\ ~segundos_convertiveis(chamada.segundos) => retorno = Ok(<<0, 0, 0>>)

\* converter_tempo_para_segundos('12:xx:00') raises ValueError
C22_Witness ==
    /\ chamada.op = "converter_tempo_para_segundos"
    /\ chamada.tempo = Str(<<Digitos(12), Letras("xx"), Digitos(0)>>)
    /\ retorno = Raise("ValueError")
-----------------------------------------------------------------------------
(* Properties of the distance (checked under SpecRegras) *)

\* C23: calcular_distancia_km gives the same distance when origin and
\* destination are swapped, and 0 when they are the same point, for valid
\* latitudes and longitudes in degrees.
C23_DistanciaSimetrica ==
    chamada.op = "calcular_distancia_km"
        => /\ retorno = Ok(calcular_distancia_km(chamada.lat_dest, chamada.long_dest, chamada.lat_orig, chamada.long_orig))
           /\ (chamada.lat_orig = chamada.lat_dest /\ chamada.long_orig = chamada.long_dest)
                => retorno = Ok(0)

\* Sao Paulo-like origin (-30, -60) and a destination in the other hemisphere
\* (60, 30): a positive distance, the same in both directions
C23_Witness ==
    /\ chamada.op = "calcular_distancia_km"
    /\ chamada.lat_orig = -30 /\ chamada.long_orig = -60
    /\ chamada.lat_dest = 60 /\ chamada.long_dest = 30
    /\ retorno.valor > 0
    /\ retorno.valor = calcular_distancia_km(60, 30, -30, -60)
-----------------------------------------------------------------------------
(* Properties of an enriched record (checked under SpecRegras) *)

\* C24: for every record enriched by the rules (both delay flags computed by
\* validar_atraso from the record's own status, then both justifications
\* computed from those flags and that status), the delay justification and
\* the cancellation justification are never both non-empty.
C24_JustificativasExclusivas ==
    chamada.op = "transformar"
        => ~(retorno.valor.justificativa_atraso # ""
                /\ retorno.valor.justificativa_cancelamento # "")

\* a cancelled flight whose actual times are later than the scheduled ones
\* has a cancellation justification and no delay justification
C24_Witness ==
    /\ chamada.op = "transformar"
    /\ chamada.bruto.situacao_voo = "Cancelado"
    /\ posterior(chamada.bruto.partida_real, chamada.bruto.partida_prevista)
    /\ chamada.bruto.codigo_justificativa = "TROCA DE AERONAVE"
    /\ retorno.valor.justificativa_atraso = ""
    /\ retorno.valor.justificativa_cancelamento # ""

\* C26: delay flag and delay duration agree: for every status and every pair
\* of well-formed timestamps p (scheduled) and r (actual), the duration
\* calcular_atraso gives for the flag of validar_atraso is non-empty exactly
\* when the flag is 'S', and then converter_tempo_para_segundos of it is the
\* number of seconds from p to r, at least 1; and
\* converter_tempo_para_segundos(converter_segundos_para_tempo(n)) = n for
\* every integer n >= 0.
C26_FlagEDuracao ==
    /\ chamada.op = "transformar"
        => /\ retorno.valor.tempo_atraso_partida # <<>> <=> retorno.valor.partida_atrasou = "S"
           /\ retorno.valor.tempo_atraso_chegada # <<>> <=> retorno.valor.chegada_atrasou = "S"
           /\ retorno.valor.partida_atrasou = "S"
                => /\ converter_tempo_para_segundos(retorno.valor.tempo_atraso_partida)
                        = segundos_entre(chamada.bruto.partida_prevista, chamada.bruto.partida_real)
                   /\ converter_tempo_para_segundos(retorno.valor.tempo_atraso_partida) >= 1
           /\ retorno.valor.chegada_atrasou = "S"
                => /\ converter_tempo_para_segundos(retorno.valor.tempo_atraso_chegada)
                        = segundos_entre(chamada.bruto.chegada_prevista, chamada.bruto.chegada_real)
                   /\ converter_tempo_para_segundos(retorno.valor.tempo_atraso_chegada) >= 1
    /\ (chamada.op = "converter_segundos_para_tempo" /\ chamada.segundos.tipo = "int")
        => (chamada.segundos.valor >= 0
                => converter_tempo_para_segundos_obj(StrDeNumeros(retorno.valor))
                        = Ok(chamada.segundos.valor))

\* a delay of more than a day (31/12/2015 23:59:59 to 15/07/2016 10:35:15)
\* read back in seconds
C26_Witness ==
    /\ chamada.op = "transformar"
    /\ chamada.bruto.situacao_voo = "Realizado"
    /\ chamada.bruto.partida_prevista = <<31, 12, 2015, 23, 59, 59>>
    /\ chamada.bruto.partida_real = <<15, 7, 2016, 10, 35, 15>>
    /\ retorno.valor.partida_atrasou = "S"
    /\ converter_tempo_para_segundos(retorno.valor.tempo_atraso_partida) = 196 * 86400 + 38116
-----------------------------------------------------------------------------
(* Conservation of the counts by the aggregation (checked under Spec) *)

SituacoesContadas == {"Realizado Sem Atraso", "Realizado Com Atraso", "Cancelado"}

\* the three counts of summary row r are within voos, and make up voos
\* exactly when every record of the group has one of the three statuses
contagens_conservadas(r) ==
    /\ r.realizados_s_atraso + r.realizados_c_atraso + r.cancelados <= r.voos
    /\ r.realizados_s_atraso + r.realizados_c_atraso + r.cancelados = r.voos
        <=> \A i \in membros(r) : dados.linhas[i].situacao_voo \in SituacoesContadas

\* C25 as stated: in every summary row realizados_s_atraso +
\* realizados_c_atraso + cancelados <= voos, with equality exactly when every
\* record of the group has one of those three statuses, and the sum of voos
\* over all summary rows equals the number of records that passed the filters
\* of the call.
C25_Conservacao ==
    resumo_devolvido
        => /\ \A n \in 1..Len(linhas_devolvidas) : contagens_conservadas(linhas_devolvidas[n])
           /\ soma_coluna(linhas_devolvidas, "voos") = Cardinality(registros_filtrados)

\* C25 amended: the same on every summary row; the sum of voos over the
\* returned rows is at most the number of records that passed the filters,
\* and equals it when no group is cut off by ranking, that is for
\* get_voos_ferias_geral and get_voos_ferias_resumo, and for
\* get_voos_ferias_linha_periodo when ranking is at least the number of
\* groups.
C25_ConservacaoSemCorte ==
    resumo_devolvido
        => /\ \A n \in 1..Len(linhas_devolvidas) : contagens_conservadas(linhas_devolvidas[n])
           /\ soma_coluna(linhas_devolvidas, "voos") <= Cardinality(registros_filtrados)
           /\ (chamada.op = "get_voos_ferias_linha_periodo"
                    => chamada.ranking >= Cardinality(combinacoes))
                => soma_coluna(linhas_devolvidas, "voos") = Cardinality(registros_filtrados)

\* three records in two groups and ranking 1: the returned row counts two of
\* the three records that passed the filters
C25_Witness ==
    /\ chamada.op = "get_voos_ferias_linha_periodo"
    /\ retorno.erro = ""
    /\ chamada.ranking = 1
    /\ Cardinality(registros_filtrados) = 3
    /\ Cardinality(combinacoes) = 2
    /\ Len(linhas_devolvidas) = 1
    /\ linhas_devolvidas[1].voos = 2
-----------------------------------------------------------------------------
(* The value lookups of AnacVoos (checked under Spec) *)

\* the column a lookup reads
coluna_consultada == IF chamada.op = "periodo_ferias" THEN "periodo_ferias" ELSE "codigo_tipo_linha"

\* C27: while dados_solidos is false, periodo_ferias() and tipo_linha() do
\* not raise the data-state error: each returns the empty list, also when
\* nothing is loaded; once dados_solidos is true each returns the distinct
\* non-empty values of its column, with no duplicates.
C27_ConsultasDeValores ==
    chamada.op \in {"periodo_ferias", "tipo_linha"}
        => IF ~dados_solidos THEN retorno = Ok(<<>>)
           ELSE /\ retorno.erro = ""
                /\ {retorno.valor[n] : n \in 1..Len(retorno.valor)}
                     = {dados.linhas[i][coluna_consultada] : i \in 1..Len(dados.linhas)} \ {""}
                /\ \A n, m \in 1..Len(retorno.valor) :
                     retorno.valor[n] = retorno.valor[m] => n = m

\* records are loaded and not yet marked solid: the lookup returns the empty
\* list and no error
C27_Witness ==
    /\ chamada.op = "periodo_ferias"
    /\ ~dados_solidos
    /\ dados # None
    /\ Len(dados.linhas) = 2
    /\ dados.linhas[1].periodo_ferias = "janeiro"
    /\ retorno = Ok(<<>>)

\* three solid records, two of January and one outside the vacation months:
\* the lookup returns January once
C27_WitnessSolidos ==
    /\ chamada.op = "periodo_ferias"
    /\ dados_solidos
    /\ Len(dados.linhas) = 3
    /\ dados.linhas[1].periodo_ferias = "janeiro"
    /\ dados.linhas[2].periodo_ferias = ""
    /\ dados.linhas[3].periodo_ferias = "janeiro"
    /\ retorno = Ok(<<"janeiro">>)

====
